---------------------------- MODULE Spec2Model ----------------------------
(***************************************************************************)
(* A model of Frank, the assignment helper (src/app.js, class              *)
(* AssignmentHelper, second definition starting at line 3052) together     *)
(* with the rule configurations it reads (src/config.js and                *)
(* src/unnamed/part_001).                                                  *)
(*                                                                         *)
(* Texts are sequences of words; every word is spelled out letter by       *)
(* letter so that String.prototype.includes, startsWith, toLowerCase and   *)
(* the regular expressions of the source are computed on characters, as    *)
(* the source computes them ("hated" contains "hate").                     *)
(***************************************************************************)
EXTENDS Integers, Sequences, FiniteSets, TLC

VARIABLES
    config,               \* which FRANK_CONFIG object the page defines
    modesFromConfig,      \* whether MODES was bound to FRANK_CONFIG.conversationModes
    conversationMode,     \* this.conversationMode
    conversationContext,  \* this.conversationContext
    conversationState,    \* this.conversationState
    currentAssignment,    \* this.currentAssignment
    lastUserInput,        \* this.lastUserInput
    savedAssignments,     \* this.savedAssignments
    ui,                   \* what the page shows: modal, rendered response, inputs
    pendingDisplay,       \* the display scheduled by setTimeout in handleAnswerWithCanonicalFlow
    timers,               \* how many callbacks setTimeout scheduled after a step have not run yet
    lastTurn,             \* record of the last handler that ran (what it computed and called)
    contained,            \* for every text, the keywords it contains, computed once at start
    begins,               \* for every text, the keywords it starts with, computed once at start
    ends,                 \* for every text, the keywords it ends with, computed once at start
    lengths               \* for every text, its number of characters, computed once at start

vars == <<config, modesFromConfig, conversationMode, conversationContext,
          conversationState, currentAssignment, lastUserInput, savedAssignments,
          ui, pendingDisplay, timers, lastTurn, contained, begins, ends, lengths>>

----------------------------------------------------------------------------
(* Bounds of the model *)

\* the number of turns (calls of generateFrankResponse) explored in one run
MaxTurns == 2

\* the number of action buttons a response can carry
MaxActions == 4

----------------------------------------------------------------------------
(* Characters and strings *)

\* SPELLING-BEGIN
\* the characters of every word of the model
Spell(w) ==
    CASE w = " " -> <<" ">>
      [] w = "'Just" -> <<"'", "J", "u", "s", "t">>
      [] w = "'Make" -> <<"'", "M", "a", "k", "e">>
      [] w = "'Wait," -> <<"'", "W", "a", "i", "t", ",">>
      [] w = "(Like" -> <<"(", "L", "i", "k", "e">>
      [] w = "(The" -> <<"(", "T", "h", "e">>
      [] w = "?" -> <<"?">>
      [] w = "Action" -> <<"A", "c", "t", "i", "o", "n">>
      [] w = "Are" -> <<"A", "r", "e">>
      [] w = "Asked" -> <<"A", "s", "k", "e", "d">>
      [] w = "Be" -> <<"B", "e">>
      [] w = "Being" -> <<"B", "e", "i", "n", "g">>
      [] w = "Brainstorm" -> <<"B", "r", "a", "i", "n", "s", "t", "o", "r", "m">>
      [] w = "Break" -> <<"B", "r", "e", "a", "k">>
      [] w = "Breath" -> <<"B", "r", "e", "a", "t", "h">>
      [] w = "Can" -> <<"C", "a", "n">>
      [] w = "Characters)" -> <<"C", "h", "a", "r", "a", "c", "t", "e", "r", "s", ")">>
      [] w = "Come" -> <<"C", "o", "m", "e">>
      [] w = "Comparison" -> <<"C", "o", "m", "p", "a", "r", "i", "s", "o", "n">>
      [] w = "Complete" -> <<"C", "o", "m", "p", "l", "e", "t", "e">>
      [] w = "Connections" -> <<"C", "o", "n", "n", "e", "c", "t", "i", "o", "n", "s">>
      [] w = "Control?" -> <<"C", "o", "n", "t", "r", "o", "l", "?">>
      [] w = "Could" -> <<"C", "o", "u", "l", "d">>
      [] w = "Create" -> <<"C", "r", "e", "a", "t", "e">>
      [] w = "Current" -> <<"C", "u", "r", "r", "e", "n", "t">>
      [] w = "Detective" -> <<"D", "e", "t", "e", "c", "t", "i", "v", "e">>
      [] w = "Down'" -> <<"D", "o", "w", "n", "'">>
      [] w = "Draft" -> <<"D", "r", "a", "f", "t">>
      [] w = "Easiest" -> <<"E", "a", "s", "i", "e", "s", "t">>
      [] w = "Edit" -> <<"E", "d", "i", "t">>
      [] w = "Evidence" -> <<"E", "v", "i", "d", "e", "n", "c", "e">>
      [] w = "Familiar'" -> <<"F", "a", "m", "i", "l", "i", "a", "r", "'">>
      [] w = "Feeling" -> <<"F", "e", "e", "l", "i", "n", "g">>
      [] w = "Find" -> <<"F", "i", "n", "d">>
      [] w = "Finding" -> <<"F", "i", "n", "d", "i", "n", "g">>
      [] w = "First" -> <<"F", "i", "r", "s", "t">>
      [] w = "Framework" -> <<"F", "r", "a", "m", "e", "w", "o", "r", "k">>
      [] w = "Gather" -> <<"G", "a", "t", "h", "e", "r">>
      [] w = "Get" -> <<"G", "e", "t">>
      [] w = "Happening" -> <<"H", "a", "p", "p", "e", "n", "i", "n", "g">>
      [] w = "Help" -> <<"H", "e", "l", "p">>
      [] w = "I" -> <<"I">>
      [] w = "I'm" -> <<"I", "'", "m">>
      [] w = "Ideas" -> <<"I", "d", "e", "a", "s">>
      [] w = "Identify" -> <<"I", "d", "e", "n", "t", "i", "f", "y">>
      [] w = "If" -> <<"I", "f">>
      [] w = "Into" -> <<"I", "n", "t", "o">>
      [] w = "Is" -> <<"I", "s">>
      [] w = "It" -> <<"I", "t">>
      [] w = "It's" -> <<"I", "t", "'", "s">>
      [] w = "Kind" -> <<"K", "i", "n", "d">>
      [] w = "Main" -> <<"M", "a", "i", "n">>
      [] w = "Make" -> <<"M", "a", "k", "e">>
      [] w = "Name" -> <<"N", "a", "m", "e">>
      [] w = "Not" -> <<"N", "o", "t">>
      [] w = "One" -> <<"O", "n", "e">>
      [] w = "Organizing" -> <<"O", "r", "g", "a", "n", "i", "z", "i", "n", "g">>
      [] w = "Outline" -> <<"O", "u", "t", "l", "i", "n", "e">>
      [] w = "Part" -> <<"P", "a", "r", "t">>
      [] w = "Pause" -> <<"P", "a", "u", "s", "e">>
      [] w = "Pieces" -> <<"P", "i", "e", "c", "e", "s">>
      [] w = "Polish" -> <<"P", "o", "l", "i", "s", "h">>
      [] w = "Remember" -> <<"R", "e", "m", "e", "m", "b", "e", "r">>
      [] w = "Rest" -> <<"R", "e", "s", "t">>
      [] w = "Review" -> <<"R", "e", "v", "i", "e", "w">>
      [] w = "Revise" -> <<"R", "e", "v", "i", "s", "e">>
      [] w = "Shine'" -> <<"S", "h", "i", "n", "e", "'">>
      [] w = "Small" -> <<"S", "m", "a", "l", "l">>
      [] w = "Smaller" -> <<"S", "m", "a", "l", "l", "e", "r">>
      [] w = "Sometimes" -> <<"S", "o", "m", "e", "t", "i", "m", "e", "s">>
      [] w = "Sounds" -> <<"S", "o", "u", "n", "d", "s">>
      [] w = "Start" -> <<"S", "t", "a", "r", "t">>
      [] w = "Step)" -> <<"S", "t", "e", "p", ")">>
      [] w = "Tackle" -> <<"T", "a", "c", "k", "l", "e">>
      [] w = "Take" -> <<"T", "a", "k", "e">>
      [] w = "Talk" -> <<"T", "a", "l", "k">>
      [] w = "Tell" -> <<"T", "e", "l", "l">>
      [] w = "Temporary" -> <<"T", "e", "m", "p", "o", "r", "a", "r", "y">>
      [] w = "That" -> <<"T", "h", "a", "t">>
      [] w = "Themes" -> <<"T", "h", "e", "m", "e", "s">>
      [] w = "Thing" -> <<"T", "h", "i", "n", "g">>
      [] w = "This" -> <<"T", "h", "i", "s">>
      [] w = "Time" -> <<"T", "i", "m", "e">>
      [] w = "Tiny" -> <<"T", "i", "n", "y">>
      [] w = "Understand" -> <<"U", "n", "d", "e", "r", "s", "t", "a", "n", "d">>
      [] w = "Want" -> <<"W", "a", "n", "t">>
      [] w = "War" -> <<"W", "a", "r">>
      [] w = "We" -> <<"W", "e">>
      [] w = "What" -> <<"W", "h", "a", "t">>
      [] w = "What's" -> <<"W", "h", "a", "t", "'", "s">>
      [] w = "When" -> <<"W", "h", "e", "n">>
      [] w = "With" -> <<"W", "i", "t", "h">>
      [] w = "Work)" -> <<"W", "o", "r", "k", ")">>
      [] w = "World" -> <<"W", "o", "r", "l", "d">>
      [] w = "Write" -> <<"W", "r", "i", "t", "e">>
      [] w = "You" -> <<"Y", "o", "u">>
      [] w = "You're" -> <<"Y", "o", "u", "'", "r", "e">>
      [] w = "Your" -> <<"Y", "o", "u", "r">>
      [] w = "Yourself" -> <<"Y", "o", "u", "r", "s", "e", "l", "f">>
      [] w = "a" -> <<"a">>
      [] w = "able" -> <<"a", "b", "l", "e">>
      [] w = "about" -> <<"a", "b", "o", "u", "t">>
      [] w = "absolutely" -> <<"a", "b", "s", "o", "l", "u", "t", "e", "l", "y">>
      [] w = "abuse" -> <<"a", "b", "u", "s", "e">>
      [] w = "actually" -> <<"a", "c", "t", "u", "a", "l", "l", "y">>
      [] w = "always" -> <<"a", "l", "w", "a", "y", "s">>
      [] w = "an" -> <<"a", "n">>
      [] w = "analyze" -> <<"a", "n", "a", "l", "y", "z", "e">>
      [] w = "and" -> <<"a", "n", "d">>
      [] w = "anxious" -> <<"a", "n", "x", "i", "o", "u", "s">>
      [] w = "anything" -> <<"a", "n", "y", "t", "h", "i", "n", "g">>
      [] w = "anyway?" -> <<"a", "n", "y", "w", "a", "y", "?">>
      [] w = "are" -> <<"a", "r", "e">>
      [] w = "as" -> <<"a", "s">>
      [] w = "asked" -> <<"a", "s", "k", "e", "d">>
      [] w = "ass" -> <<"a", "s", "s">>
      [] w = "assault" -> <<"a", "s", "s", "a", "u", "l", "t">>
      [] w = "assignment" -> <<"a", "s", "s", "i", "g", "n", "m", "e", "n", "t">>
      [] w = "at" -> <<"a", "t">>
      [] w = "attack" -> <<"a", "t", "t", "a", "c", "k">>
      [] w = "awful" -> <<"a", "w", "f", "u", "l">>
      [] w = "back" -> <<"b", "a", "c", "k">>
      [] w = "bad" -> <<"b", "a", "d">>
      [] w = "battle" -> <<"b", "a", "t", "t", "l", "e">>
      [] w = "be" -> <<"b", "e">>
      [] w = "because" -> <<"b", "e", "c", "a", "u", "s", "e">>
      [] w = "before" -> <<"b", "e", "f", "o", "r", "e">>
      [] w = "begin" -> <<"b", "e", "g", "i", "n">>
      [] w = "being" -> <<"b", "e", "i", "n", "g">>
      [] w = "big" -> <<"b", "i", "g">>
      [] w = "bit" -> <<"b", "i", "t">>
      [] w = "blank" -> <<"b", "l", "a", "n", "k">>
      [] w = "bomb" -> <<"b", "o", "m", "b">>
      [] w = "book" -> <<"b", "o", "o", "k">>
      [] w = "boring" -> <<"b", "o", "r", "i", "n", "g">>
      [] w = "bother" -> <<"b", "o", "t", "h", "e", "r">>
      [] w = "bothering" -> <<"b", "o", "t", "h", "e", "r", "i", "n", "g">>
      [] w = "bothers" -> <<"b", "o", "t", "h", "e", "r", "s">>
      [] w = "brain" -> <<"b", "r", "a", "i", "n">>
      [] w = "break" -> <<"b", "r", "e", "a", "k">>
      [] w = "breast" -> <<"b", "r", "e", "a", "s", "t">>
      [] w = "butt" -> <<"b", "u", "t", "t">>
      [] w = "can" -> <<"c", "a", "n">>
      [] w = "can't" -> <<"c", "a", "n", "'", "t">>
      [] w = "cannot" -> <<"c", "a", "n", "n", "o", "t">>
      [] w = "care" -> <<"c", "a", "r", "e">>
      [] w = "care." -> <<"c", "a", "r", "e", ".">>
      [] w = "change" -> <<"c", "h", "a", "n", "g", "e">>
      [] w = "class" -> <<"c", "l", "a", "s", "s">>
      [] w = "colliding" -> <<"c", "o", "l", "l", "i", "d", "i", "n", "g">>
      [] w = "come" -> <<"c", "o", "m", "e">>
      [] w = "compare" -> <<"c", "o", "m", "p", "a", "r", "e">>
      [] w = "complete" -> <<"c", "o", "m", "p", "l", "e", "t", "e">>
      [] w = "completely" -> <<"c", "o", "m", "p", "l", "e", "t", "e", "l", "y">>
      [] w = "confusing" -> <<"c", "o", "n", "f", "u", "s", "i", "n", "g">>
      [] w = "connect" -> <<"c", "o", "n", "n", "e", "c", "t">>
      [] w = "contrast" -> <<"c", "o", "n", "t", "r", "a", "s", "t">>
      [] w = "cope" -> <<"c", "o", "p", "e">>
      [] w = "correlate" -> <<"c", "o", "r", "r", "e", "l", "a", "t", "e">>
      [] w = "could" -> <<"c", "o", "u", "l", "d">>
      [] w = "cut" -> <<"c", "u", "t">>
      [] w = "cutting" -> <<"c", "u", "t", "t", "i", "n", "g">>
      [] w = "date" -> <<"d", "a", "t", "e">>
      [] w = "deal" -> <<"d", "e", "a", "l">>
      [] w = "definitely" -> <<"d", "e", "f", "i", "n", "i", "t", "e", "l", "y">>
      [] w = "dick" -> <<"d", "i", "c", "k">>
      [] w = "different" -> <<"d", "i", "f", "f", "e", "r", "e", "n", "t">>
      [] w = "differently" -> <<"d", "i", "f", "f", "e", "r", "e", "n", "t", "l", "y">>
      [] w = "difficult" -> <<"d", "i", "f", "f", "i", "c", "u", "l", "t">>
      [] w = "do" -> <<"d", "o">>
      [] w = "doesn't" -> <<"d", "o", "e", "s", "n", "'", "t">>
      [] w = "doesnt" -> <<"d", "o", "e", "s", "n", "t">>
      [] w = "don't" -> <<"d", "o", "n", "'", "t">>
      [] w = "done" -> <<"d", "o", "n", "e">>
      [] w = "dont" -> <<"d", "o", "n", "t">>
      [] w = "down" -> <<"d", "o", "w", "n">>
      [] w = "down?" -> <<"d", "o", "w", "n", "?">>
      [] w = "due" -> <<"d", "u", "e">>
      [] w = "end" -> <<"e", "n", "d">>
      [] w = "engage" -> <<"e", "n", "g", "a", "g", "e">>
      [] w = "engaging?" -> <<"e", "n", "g", "a", "g", "i", "n", "g", "?">>
      [] w = "erotic" -> <<"e", "r", "o", "t", "i", "c">>
      [] w = "essay" -> <<"e", "s", "s", "a", "y">>
      [] w = "explain" -> <<"e", "x", "p", "l", "a", "i", "n">>
      [] w = "extreme" -> <<"e", "x", "t", "r", "e", "m", "e">>
      [] w = "failing." -> <<"f", "a", "i", "l", "i", "n", "g", ".">>
      [] w = "feel" -> <<"f", "e", "e", "l">>
      [] w = "feeling" -> <<"f", "e", "e", "l", "i", "n", "g">>
      [] w = "feels" -> <<"f", "e", "e", "l", "s">>
      [] w = "fetish" -> <<"f", "e", "t", "i", "s", "h">>
      [] w = "few" -> <<"f", "e", "w">>
      [] w = "fight" -> <<"f", "i", "g", "h", "t">>
      [] w = "finish" -> <<"f", "i", "n", "i", "s", "h">>
      [] w = "first" -> <<"f", "i", "r", "s", "t">>
      [] w = "focus" -> <<"f", "o", "c", "u", "s">>
      [] w = "for" -> <<"f", "o", "r">>
      [] w = "forget" -> <<"f", "o", "r", "g", "e", "t">>
      [] w = "freeze" -> <<"f", "r", "e", "e", "z", "e">>
      [] w = "friends" -> <<"f", "r", "i", "e", "n", "d", "s">>
      [] w = "from" -> <<"f", "r", "o", "m">>
      [] w = "frozen" -> <<"f", "r", "o", "z", "e", "n">>
      [] w = "frustrated" -> <<"f", "r", "u", "s", "t", "r", "a", "t", "e", "d">>
      [] w = "function" -> <<"f", "u", "n", "c", "t", "i", "o", "n">>
      [] w = "genital" -> <<"g", "e", "n", "i", "t", "a", "l">>
      [] w = "get" -> <<"g", "e", "t">>
      [] w = "give" -> <<"g", "i", "v", "e">>
      [] w = "go" -> <<"g", "o">>
      [] w = "going," -> <<"g", "o", "i", "n", "g", ",">>
      [] w = "good" -> <<"g", "o", "o", "d">>
      [] w = "guess" -> <<"g", "u", "e", "s", "s">>
      [] w = "guide" -> <<"g", "u", "i", "d", "e">>
      [] w = "gun" -> <<"g", "u", "n">>
      [] w = "had" -> <<"h", "a", "d">>
      [] w = "handle" -> <<"h", "a", "n", "d", "l", "e">>
      [] w = "hang" -> <<"h", "a", "n", "g">>
      [] w = "happens" -> <<"h", "a", "p", "p", "e", "n", "s">>
      [] w = "hard" -> <<"h", "a", "r", "d">>
      [] w = "hard." -> <<"h", "a", "r", "d", ".">>
      [] w = "harder" -> <<"h", "a", "r", "d", "e", "r">>
      [] w = "hardest" -> <<"h", "a", "r", "d", "e", "s", "t">>
      [] w = "hardest?" -> <<"h", "a", "r", "d", "e", "s", "t", "?">>
      [] w = "harm" -> <<"h", "a", "r", "m">>
      [] w = "hate" -> <<"h", "a", "t", "e">>
      [] w = "have" -> <<"h", "a", "v", "e">>
      [] w = "hear" -> <<"h", "e", "a", "r">>
      [] w = "help" -> <<"h", "e", "l", "p">>
      [] w = "help-me-get-through-the-minimum" -> <<"h", "e", "l", "p", "-", "m", "e", "-", "g", "e", "t", "-", "t", "h", "r", "o", "u", "g", "h", "-", "t", "h", "e", "-", "m", "i", "n", "i", "m", "u", "m">>
      [] w = "helpful" -> <<"h", "e", "l", "p", "f", "u", "l">>
      [] w = "here." -> <<"h", "e", "r", "e", ".">>
      [] w = "hold" -> <<"h", "o", "l", "d">>
      [] w = "homework" -> <<"h", "o", "m", "e", "w", "o", "r", "k">>
      [] w = "how" -> <<"h", "o", "w">>
      [] w = "hurt" -> <<"h", "u", "r", "t">>
      [] w = "i" -> <<"i">>
      [] w = "i'm" -> <<"i", "'", "m">>
      [] w = "if" -> <<"i", "f">>
      [] w = "im" -> <<"i", "m">>
      [] w = "important" -> <<"i", "m", "p", "o", "r", "t", "a", "n", "t">>
      [] w = "important." -> <<"i", "m", "p", "o", "r", "t", "a", "n", "t", ".">>
      [] w = "impossible" -> <<"i", "m", "p", "o", "s", "s", "i", "b", "l", "e">>
      [] w = "intense" -> <<"i", "n", "t", "e", "n", "s", "e">>
      [] w = "intercourse" -> <<"i", "n", "t", "e", "r", "c", "o", "u", "r", "s", "e">>
      [] w = "into" -> <<"i", "n", "t", "o">>
      [] w = "irrelevant" -> <<"i", "r", "r", "e", "l", "e", "v", "a", "n", "t">>
      [] w = "irrelevant," -> <<"i", "r", "r", "e", "l", "e", "v", "a", "n", "t", ",">>
      [] w = "is" -> <<"i", "s">>
      [] w = "issue" -> <<"i", "s", "s", "u", "e">>
      [] w = "it" -> <<"i", "t">>
      [] w = "it's" -> <<"i", "t", "'", "s">>
      [] w = "it." -> <<"i", "t", ".">>
      [] w = "it?" -> <<"i", "t", "?">>
      [] w = "its" -> <<"i", "t", "s">>
      [] w = "jump" -> <<"j", "u", "m", "p">>
      [] w = "just" -> <<"j", "u", "s", "t">>
      [] w = "keep" -> <<"k", "e", "e", "p">>
      [] w = "kill" -> <<"k", "i", "l", "l">>
      [] w = "kind" -> <<"k", "i", "n", "d">>
      [] w = "kink" -> <<"k", "i", "n", "k">>
      [] w = "know" -> <<"k", "n", "o", "w">>
      [] w = "large" -> <<"l", "a", "r", "g", "e">>
      [] w = "later" -> <<"l", "a", "t", "e", "r">>
      [] w = "let's" -> <<"l", "e", "t", "'", "s">>
      [] w = "lets" -> <<"l", "e", "t", "s">>
      [] w = "life" -> <<"l", "i", "f", "e">>
      [] w = "life," -> <<"l", "i", "f", "e", ",">>
      [] w = "like" -> <<"l", "i", "k", "e">>
      [] w = "link" -> <<"l", "i", "n", "k">>
      [] w = "little" -> <<"l", "i", "t", "t", "l", "e">>
      [] w = "looks" -> <<"l", "o", "o", "k", "s">>
      [] w = "lot" -> <<"l", "o", "t">>
      [] w = "lot." -> <<"l", "o", "t", ".">>
      [] w = "love" -> <<"l", "o", "v", "e">>
      [] w = "lunch" -> <<"l", "u", "n", "c", "h">>
      [] w = "make" -> <<"m", "a", "k", "e">>
      [] w = "make-smaller" -> <<"m", "a", "k", "e", "-", "s", "m", "a", "l", "l", "e", "r">>
      [] w = "makes" -> <<"m", "a", "k", "e", "s">>
      [] w = "masturbat" -> <<"m", "a", "s", "t", "u", "r", "b", "a", "t">>
      [] w = "matter" -> <<"m", "a", "t", "t", "e", "r">>
      [] w = "matters" -> <<"m", "a", "t", "t", "e", "r", "s">>
      [] w = "matters." -> <<"m", "a", "t", "t", "e", "r", "s", ".">>
      [] w = "maybe" -> <<"m", "a", "y", "b", "e">>
      [] w = "me" -> <<"m", "e">>
      [] w = "meaning" -> <<"m", "e", "a", "n", "i", "n", "g">>
      [] w = "meaningful," -> <<"m", "e", "a", "n", "i", "n", "g", "f", "u", "l", ",">>
      [] w = "meaningful?" -> <<"m", "e", "a", "n", "i", "n", "g", "f", "u", "l", "?">>
      [] w = "might" -> <<"m", "i", "g", "h", "t">>
      [] w = "mind" -> <<"m", "i", "n", "d">>
      [] w = "minimum" -> <<"m", "i", "n", "i", "m", "u", "m">>
      [] w = "missing" -> <<"m", "i", "s", "s", "i", "n", "g">>
      [] w = "more" -> <<"m", "o", "r", "e">>
      [] w = "more," -> <<"m", "o", "r", "e", ",">>
      [] w = "much" -> <<"m", "u", "c", "h">>
      [] w = "much," -> <<"m", "u", "c", "h", ",">>
      [] w = "much?" -> <<"m", "u", "c", "h", "?">>
      [] w = "murder" -> <<"m", "u", "r", "d", "e", "r">>
      [] w = "my" -> <<"m", "y">>
      [] w = "myself" -> <<"m", "y", "s", "e", "l", "f">>
      [] w = "naked" -> <<"n", "a", "k", "e", "d">>
      [] w = "need" -> <<"n", "e", "e", "d">>
      [] w = "never" -> <<"n", "e", "v", "e", "r">>
      [] w = "no" -> <<"n", "o">>
      [] w = "not" -> <<"n", "o", "t">>
      [] w = "nothing" -> <<"n", "o", "t", "h", "i", "n", "g">>
      [] w = "noticing" -> <<"n", "o", "t", "i", "c", "i", "n", "g">>
      [] w = "now" -> <<"n", "o", "w">>
      [] w = "now." -> <<"n", "o", "w", ".">>
      [] w = "now?" -> <<"n", "o", "w", "?">>
      [] w = "nude" -> <<"n", "u", "d", "e">>
      [] w = "of" -> <<"o", "f">>
      [] w = "off" -> <<"o", "f", "f">>
      [] w = "often" -> <<"o", "f", "t", "e", "n">>
      [] w = "old" -> <<"o", "l", "d">>
      [] w = "on" -> <<"o", "n">>
      [] w = "one" -> <<"o", "n", "e">>
      [] w = "or" -> <<"o", "r">>
      [] w = "orgasm" -> <<"o", "r", "g", "a", "s", "m">>
      [] w = "overdose" -> <<"o", "v", "e", "r", "d", "o", "s", "e">>
      [] w = "overdosing" -> <<"o", "v", "e", "r", "d", "o", "s", "i", "n", "g">>
      [] w = "overwhelmed" -> <<"o", "v", "e", "r", "w", "h", "e", "l", "m", "e", "d">>
      [] w = "overwhelming" -> <<"o", "v", "e", "r", "w", "h", "e", "l", "m", "i", "n", "g">>
      [] w = "panic" -> <<"p", "a", "n", "i", "c">>
      [] w = "paper" -> <<"p", "a", "p", "e", "r">>
      [] w = "paralyzed" -> <<"p", "a", "r", "a", "l", "y", "z", "e", "d">>
      [] w = "park" -> <<"p", "a", "r", "k">>
      [] w = "part" -> <<"p", "a", "r", "t">>
      [] w = "pass" -> <<"p", "a", "s", "s">>
      [] w = "pause" -> <<"p", "a", "u", "s", "e">>
      [] w = "penis" -> <<"p", "e", "n", "i", "s">>
      [] w = "perhaps" -> <<"p", "e", "r", "h", "a", "p", "s">>
      [] w = "point" -> <<"p", "o", "i", "n", "t">>
      [] w = "point?" -> <<"p", "o", "i", "n", "t", "?">>
      [] w = "pointless" -> <<"p", "o", "i", "n", "t", "l", "e", "s", "s">>
      [] w = "pointless," -> <<"p", "o", "i", "n", "t", "l", "e", "s", "s", ",">>
      [] w = "porn" -> <<"p", "o", "r", "n">>
      [] w = "possibly" -> <<"p", "o", "s", "s", "i", "b", "l", "y">>
      [] w = "probably" -> <<"p", "r", "o", "b", "a", "b", "l", "y">>
      [] w = "problem" -> <<"p", "r", "o", "b", "l", "e", "m">>
      [] w = "process" -> <<"p", "r", "o", "c", "e", "s", "s">>
      [] w = "project" -> <<"p", "r", "o", "j", "e", "c", "t">>
      [] w = "purpose" -> <<"p", "u", "r", "p", "o", "s", "e">>
      [] w = "pussy" -> <<"p", "u", "s", "s", "y">>
      [] w = "question" -> <<"q", "u", "e", "s", "t", "i", "o", "n">>
      [] w = "read" -> <<"r", "e", "a", "d">>
      [] w = "reading" -> <<"r", "e", "a", "d", "i", "n", "g">>
      [] w = "ready" -> <<"r", "e", "a", "d", "y">>
      [] w = "really" -> <<"r", "e", "a", "l", "l", "y">>
      [] w = "relate" -> <<"r", "e", "l", "a", "t", "e">>
      [] w = "relevant" -> <<"r", "e", "l", "e", "v", "a", "n", "t">>
      [] w = "relevant," -> <<"r", "e", "l", "e", "v", "a", "n", "t", ",">>
      [] w = "report" -> <<"r", "e", "p", "o", "r", "t">>
      [] w = "research" -> <<"r", "e", "s", "e", "a", "r", "c", "h">>
      [] w = "right" -> <<"r", "i", "g", "h", "t">>
      [] w = "saying." -> <<"s", "a", "y", "i", "n", "g", ".">>
      [] w = "see" -> <<"s", "e", "e">>
      [] w = "seem" -> <<"s", "e", "e", "m">>
      [] w = "seems" -> <<"s", "e", "e", "m", "s">>
      [] w = "self" -> <<"s", "e", "l", "f">>
      [] w = "self-harm" -> <<"s", "e", "l", "f", "-", "h", "a", "r", "m">>
      [] w = "sense" -> <<"s", "e", "n", "s", "e">>
      [] w = "sense." -> <<"s", "e", "n", "s", "e", ".">>
      [] w = "sex" -> <<"s", "e", "x">>
      [] w = "sexual" -> <<"s", "e", "x", "u", "a", "l">>
      [] w = "shoot" -> <<"s", "h", "o", "o", "t">>
      [] w = "should" -> <<"s", "h", "o", "u", "l", "d">>
      [] w = "show" -> <<"s", "h", "o", "w">>
      [] w = "shut" -> <<"s", "h", "u", "t">>
      [] w = "shutdown" -> <<"s", "h", "u", "t", "d", "o", "w", "n">>
      [] w = "simpler" -> <<"s", "i", "m", "p", "l", "e", "r">>
      [] w = "since" -> <<"s", "i", "n", "c", "e">>
      [] w = "situation" -> <<"s", "i", "t", "u", "a", "t", "i", "o", "n">>
      [] w = "slow" -> <<"s", "l", "o", "w">>
      [] w = "smaller" -> <<"s", "m", "a", "l", "l", "e", "r">>
      [] w = "something" -> <<"s", "o", "m", "e", "t", "h", "i", "n", "g">>
      [] w = "somewhat" -> <<"s", "o", "m", "e", "w", "h", "a", "t">>
      [] w = "sort" -> <<"s", "o", "r", "t">>
      [] w = "sounds" -> <<"s", "o", "u", "n", "d", "s">>
      [] w = "stab" -> <<"s", "t", "a", "b">>
      [] w = "stand" -> <<"s", "t", "a", "n", "d">>
      [] w = "start" -> <<"s", "t", "a", "r", "t">>
      [] w = "start-step" -> <<"s", "t", "a", "r", "t", "-", "s", "t", "e", "p">>
      [] w = "start." -> <<"s", "t", "a", "r", "t", ".">>
      [] w = "started" -> <<"s", "t", "a", "r", "t", "e", "d">>
      [] w = "step" -> <<"s", "t", "e", "p">>
      [] w = "step?" -> <<"s", "t", "e", "p", "?">>
      [] w = "steps" -> <<"s", "t", "e", "p", "s">>
      [] w = "still" -> <<"s", "t", "i", "l", "l">>
      [] w = "stress" -> <<"s", "t", "r", "e", "s", "s">>
      [] w = "stressed" -> <<"s", "t", "r", "e", "s", "s", "e", "d">>
      [] w = "struggling" -> <<"s", "t", "r", "u", "g", "g", "l", "i", "n", "g">>
      [] w = "stuck" -> <<"s", "t", "u", "c", "k">>
      [] w = "sucks" -> <<"s", "u", "c", "k", "s">>
      [] w = "suicidal" -> <<"s", "u", "i", "c", "i", "d", "a", "l">>
      [] w = "suicide" -> <<"s", "u", "i", "c", "i", "d", "e">>
      [] w = "suppose" -> <<"s", "u", "p", "p", "o", "s", "e">>
      [] w = "sure" -> <<"s", "u", "r", "e">>
      [] w = "talk-more-about-this" -> <<"t", "a", "l", "k", "-", "m", "o", "r", "e", "-", "a", "b", "o", "u", "t", "-", "t", "h", "i", "s">>
      [] w = "terrible" -> <<"t", "e", "r", "r", "i", "b", "l", "e">>
      [] w = "that" -> <<"t", "h", "a", "t">>
      [] w = "that-makes-sense" -> <<"t", "h", "a", "t", "-", "m", "a", "k", "e", "s", "-", "s", "e", "n", "s", "e">>
      [] w = "that." -> <<"t", "h", "a", "t", ".">>
      [] w = "the" -> <<"t", "h", "e">>
      [] w = "theme" -> <<"t", "h", "e", "m", "e">>
      [] w = "then" -> <<"t", "h", "e", "n">>
      [] w = "they" -> <<"t", "h", "e", "y">>
      [] w = "things" -> <<"t", "h", "i", "n", "g", "s">>
      [] w = "think" -> <<"t", "h", "i", "n", "k">>
      [] w = "think," -> <<"t", "h", "i", "n", "k", ",">>
      [] w = "this" -> <<"t", "h", "i", "s">>
      [] w = "this," -> <<"t", "h", "i", "s", ",">>
      [] w = "this." -> <<"t", "h", "i", "s", ".">>
      [] w = "this?" -> <<"t", "h", "i", "s", "?">>
      [] w = "through" -> <<"t", "h", "r", "o", "u", "g", "h">>
      [] w = "tie" -> <<"t", "i", "e">>
      [] w = "time" -> <<"t", "i", "m", "e">>
      [] w = "tiny" -> <<"t", "i", "n", "y">>
      [] w = "to" -> <<"t", "o">>
      [] w = "today" -> <<"t", "o", "d", "a", "y">>
      [] w = "tomorrow" -> <<"t", "o", "m", "o", "r", "r", "o", "w">>
      [] w = "too" -> <<"t", "o", "o">>
      [] w = "torture" -> <<"t", "o", "r", "t", "u", "r", "e">>
      [] w = "totally" -> <<"t", "o", "t", "a", "l", "l", "y">>
      [] w = "trapped" -> <<"t", "r", "a", "p", "p", "e", "d">>
      [] w = "try." -> <<"t", "r", "y", ".">>
      [] w = "unbearable" -> <<"u", "n", "b", "e", "a", "r", "a", "b", "l", "e">>
      [] w = "unbearable," -> <<"u", "n", "b", "e", "a", "r", "a", "b", "l", "e", ",">>
      [] w = "uncertain" -> <<"u", "n", "c", "e", "r", "t", "a", "i", "n">>
      [] w = "understand" -> <<"u", "n", "d", "e", "r", "s", "t", "a", "n", "d">>
      [] w = "understanding" -> <<"u", "n", "d", "e", "r", "s", "t", "a", "n", "d", "i", "n", "g">>
      [] w = "unsure" -> <<"u", "n", "s", "u", "r", "e">>
      [] w = "up" -> <<"u", "p">>
      [] w = "used" -> <<"u", "s", "e", "d">>
      [] w = "useless" -> <<"u", "s", "e", "l", "e", "s", "s">>
      [] w = "vagina" -> <<"v", "a", "g", "i", "n", "a">>
      [] w = "violence" -> <<"v", "i", "o", "l", "e", "n", "c", "e">>
      [] w = "violent" -> <<"v", "i", "o", "l", "e", "n", "t">>
      [] w = "wait" -> <<"w", "a", "i", "t">>
      [] w = "walk" -> <<"w", "a", "l", "k">>
      [] w = "want" -> <<"w", "a", "n", "t">>
      [] w = "want." -> <<"w", "a", "n", "t", ".">>
      [] w = "war" -> <<"w", "a", "r">>
      [] w = "waste" -> <<"w", "a", "s", "t", "e">>
      [] w = "way" -> <<"w", "a", "y">>
      [] w = "ways" -> <<"w", "a", "y", "s">>
      [] w = "we" -> <<"w", "e">>
      [] w = "weapon" -> <<"w", "e", "a", "p", "o", "n">>
      [] w = "went" -> <<"w", "e", "n", "t">>
      [] w = "what" -> <<"w", "h", "a", "t">>
      [] w = "what's" -> <<"w", "h", "a", "t", "'", "s">>
      [] w = "whats" -> <<"w", "h", "a", "t", "s">>
      [] w = "when" -> <<"w", "h", "e", "n">>
      [] w = "whenever" -> <<"w", "h", "e", "n", "e", "v", "e", "r">>
      [] w = "where" -> <<"w", "h", "e", "r", "e">>
      [] w = "which" -> <<"w", "h", "i", "c", "h">>
      [] w = "who" -> <<"w", "h", "o">>
      [] w = "why" -> <<"w", "h", "y">>
      [] w = "will" -> <<"w", "i", "l", "l">>
      [] w = "with" -> <<"w", "i", "t", "h">>
      [] w = "won't" -> <<"w", "o", "n", "'", "t">>
      [] w = "wonder" -> <<"w", "o", "n", "d", "e", "r">>
      [] w = "work" -> <<"w", "o", "r", "k">>
      [] w = "working" -> <<"w", "o", "r", "k", "i", "n", "g">>
      [] w = "works" -> <<"w", "o", "r", "k", "s">>
      [] w = "worse" -> <<"w", "o", "r", "s", "e">>
      [] w = "worst" -> <<"w", "o", "r", "s", "t">>
      [] w = "would" -> <<"w", "o", "u", "l", "d">>
      [] w = "write" -> <<"w", "r", "i", "t", "e">>
      [] w = "wrong" -> <<"w", "r", "o", "n", "g">>
      [] w = "you" -> <<"y", "o", "u">>
      [] w = "you're" -> <<"y", "o", "u", "'", "r", "e">>
      [] w = "you." -> <<"y", "o", "u", ".">>
      [] w = "your" -> <<"y", "o", "u", "r">>
\* SPELLING-END

\* JavaScript null for a string-valued field (also stands for the empty string:
\* the source only tests these fields for truthiness)
NoText == <<>>

\* String.prototype.toLowerCase on one character
lowerChar(c) ==
    CASE c = "A" -> "a" [] c = "B" -> "b" [] c = "C" -> "c" [] c = "D" -> "d"
      [] c = "E" -> "e" [] c = "F" -> "f" [] c = "G" -> "g" [] c = "H" -> "h"
      [] c = "I" -> "i" [] c = "J" -> "j" [] c = "K" -> "k" [] c = "L" -> "l"
      [] c = "M" -> "m" [] c = "N" -> "n" [] c = "O" -> "o" [] c = "P" -> "p"
      [] c = "Q" -> "q" [] c = "R" -> "r" [] c = "S" -> "s" [] c = "T" -> "t"
      [] c = "U" -> "u" [] c = "V" -> "v" [] c = "W" -> "w" [] c = "X" -> "x"
      [] c = "Y" -> "y" [] c = "Z" -> "z" [] OTHER -> c

toLowerCase(s) == [i \in 1..Len(s) |-> lowerChar(s[i])]

\* the characters of a text: its words joined by single spaces
RECURSIVE chars(_)
chars(t) ==
    IF Len(t) = 0 THEN <<>>
    ELSE IF Len(t) = 1 THEN Spell(t[1])
    ELSE Spell(t[1]) \o <<" ">> \o chars(Tail(t))

\* s.includes(k) on character sequences
includesChars(s, k) ==
    \E i \in 1..(Len(s) - Len(k) + 1) : SubSeq(s, i, i + Len(k) - 1) = k

\* s.startsWith(k) on character sequences
startsWithChars(s, k) ==
    Len(k) <= Len(s) /\ SubSeq(s, 1, Len(k)) = k

\* /k$/ on character sequences
endsWithChars(s, k) ==
    Len(k) <= Len(s) /\ SubSeq(s, Len(s) - Len(k) + 1, Len(s)) = k

----------------------------------------------------------------------------
(* The rule configurations (FRANK_CONFIG) *)

\* "none": no FRANK_CONFIG is defined; "config_js": src/config.js;
\* "part_001": src/unnamed/part_001 (the configuration with dobrowskiPrinciples)
Configs == {"none", "config_js", "part_001"}

\* JavaScript undefined and null for a mode-valued field
Undefined == "undefined"
Null == "null"

\* FRANK_CONFIG.conversationModes of src/config.js; oneModePerTurn is the
\* boolean true, written "true": no mode string equals it
conversationModesConfigJs ==
    [LISTENING |-> "listening", CLARIFYING |-> "clarifying",
     SHRINKING |-> "shrinking", STEPPING |-> "stepping", PAUSED |-> "paused",
     oneModePerTurn |-> "true"]

\* FRANK_CONFIG.conversationModes of src/unnamed/part_001
conversationModesPart001 ==
    [LISTENING |-> "listening", CLARIFYING |-> "clarifying",
     UNDERSTANDING |-> "understanding", SHRINKING |-> "shrinking",
     STEPPING |-> "stepping", PAUSED |-> "paused", oneModePerTurn |-> "true"]

\* the fallback object of the MODES constant as it would be without its
\* CLARIFYING key
fallbackModesWithoutClarifying ==
    [LISTENING |-> "listening",
     OFFERING_DIRECTION |-> "offering_direction", CALMING |-> "calming",
     STEPPING |-> "stepping", SHRINKING |-> "offering_direction",
     PAUSED |-> "calming", UNDERSTANDING |-> "listening"]

\* the fallback object of the MODES constant
fallbackModes ==
    [LISTENING |-> "listening", CLARIFYING |-> "clarifying",
     OFFERING_DIRECTION |-> "offering_direction", CALMING |-> "calming",
     STEPPING |-> "stepping", SHRINKING |-> "offering_direction",
     PAUSED |-> "calming", UNDERSTANDING |-> "listening"]

\* const MODES = (typeof FRANK_CONFIG !== 'undefined' && FRANK_CONFIG.conversationModes)
\*     ? FRANK_CONFIG.conversationModes : { ... }
\* evaluated once, when app.js is loaded: modesFromConfig tells whether
\* FRANK_CONFIG was already defined at that moment
MODES ==
    IF modesFromConfig
    THEN (IF config = "part_001" THEN conversationModesPart001
                                 ELSE conversationModesConfigJs)
    ELSE fallbackModes

\* MODES.<key>: undefined when the object has no such key
M(key) == IF key \in DOMAIN MODES THEN MODES[key] ELSE Undefined

\* Object.values(MODES)
validModes == {MODES[k] : k \in DOMAIN MODES}

\* the five modes of the state machine
Listening == "listening"
Clarifying == "clarifying"
OfferingDirection == "offering_direction"
Calming == "calming"
Stepping == "stepping"
FiveModes == {Listening, Clarifying, OfferingDirection, Calming, Stepping}

\* reasoning.certaintyHandling.lowCertaintyMarkers
lowCertaintyMarkers ==
    { <<"i", "think">>, <<"maybe">>, <<"perhaps">>, <<"might">>,
      <<"could", "be">>, <<"it", "feels", "like">>,
      <<"it", "seems", "like">>, <<"i'm", "not", "sure">>,
      <<"im", "not", "sure">>, <<"i", "guess">>, <<"i", "suppose">>,
      <<"sort", "of">>, <<"kind", "of">>, <<"a", "little">>,
      <<"a", "bit">>, <<"somewhat">>, <<"possibly">>, <<"i", "wonder">>,
      <<"not", "really", "sure">>, <<"not", "sure">>, <<"unsure">>,
      <<"uncertain">> }
\* reasoning.certaintyHandling.highCertaintyMarkers
highCertaintyMarkers ==
    { <<"i", "hate">>, <<"i", "love">>, <<"this", "is">>, <<"that", "is">>,
      <<"it", "is">>, <<"always">>, <<"never">>, <<"impossible">>,
      <<"can't">>, <<"cannot">>, <<"won't">>, <<"will", "not">>,
      <<"definitely">>, <<"absolutely">>, <<"completely">>, <<"totally">>,
      <<"pointless">>, <<"useless">>, <<"waste">>, <<"i", "can't">>,
      <<"i", "cannot">>, <<"i", "give", "up">>, <<"i'm", "done">>,
      <<"im", "done">> }
\* lossOfFunctionSignals as it would be if the generic marker "can't do this"
\* were listed among the loss-of-function signals
lossOfFunctionSignalsWithCantDoThis ==
    { <<"i", "can't", "think">>, <<"can't", "process">>,
      <<"brain", "won't", "work">>, <<"mind", "is", "blank">>,
      <<"can't", "focus">>, <<"can't", "function">>, <<"shut", "down">>,
      <<"frozen">>, <<"paralyzed">>, <<"completely", "stuck">>,
      <<"nothing", "works">>, <<"can't", "do", "anything">>,
      <<"can't", "do", "this">> }
\* reasoning.dobrowskiPrinciples.intensityAsInformation.lossOfFunctionSignals
lossOfFunctionSignals ==
    { <<"i", "can't", "think">>, <<"can't", "process">>,
      <<"brain", "won't", "work">>, <<"mind", "is", "blank">>,
      <<"can't", "focus">>, <<"can't", "function">>, <<"shut", "down">>,
      <<"frozen">>, <<"paralyzed">>, <<"completely", "stuck">>,
      <<"nothing", "works">>, <<"can't", "do", "anything">> }
\* reasoning.dobrowskiPrinciples.intensityAsInformation.intensityOnlySignals
intensityOnlySignals ==
    { <<"unbearable">>, <<"too", "much">>, <<"overwhelming">>,
      <<"intense">>, <<"extreme">>, <<"can't", "stand">>,
      <<"hate", "this">>, <<"terrible">>, <<"awful">>, <<"worst">> }
\* inputClassification.overwhelmSignals
overwhelmSignals ==
    { <<"i", "can't">>, <<"i", "cannot">>, <<"too", "much">>,
      <<"too", "hard">>, <<"i", "give", "up">>,
      <<"this", "is", "too", "much">>, <<"can't", "do", "this">>,
      <<"cannot", "do", "this">>, <<"shutdown">>, <<"shut", "down">>,
      <<"freeze">>, <<"frozen">>, <<"stuck">>, <<"trapped">>,
      <<"i'm", "done">>, <<"im", "done">>, <<"can't", "handle">>,
      <<"cannot", "handle">> }
\* inputClassification.shrinkSignals
shrinkSignals ==
    { <<"make", "it", "smaller">>, <<"break", "it", "down">>,
      <<"too", "big">>, <<"too", "large">>, <<"smaller", "steps">>,
      <<"tiny", "step">>, <<"one", "step">>, <<"simpler">> }
\* inputClassification.explanatoryPatterns (case-insensitive regular
\* expressions without metacharacters: containment of the lower-cased text)
explanatoryPatterns ==
    { <<"it", "doesn't", "feel">>, <<"it", "doesnt", "feel">>,
      <<"it", "doesn't", "seem">>, <<"it", "doesnt", "seem">>,
      <<"because">>, <<"the", "problem", "is">>,
      <<"what's", "wrong", "is">>, <<"whats", "wrong", "is">>,
      <<"doesn't", "connect">>, <<"doesnt", "connect">>,
      <<"not", "relevant">>, <<"irrelevant">> }
\* inputClassification.emotionalKeywords
emotionalKeywords ==
    { <<"hate">>, <<"love">>, <<"feel">>, <<"feeling">>, <<"frustrated">>,
      <<"anxious">>, <<"stressed">>, <<"overwhelmed">>, <<"stuck">>,
      <<"difficult">>, <<"hard">>, <<"sucks">>, <<"boring">>,
      <<"pointless">>, <<"useless">>, <<"waste", "of", "time">>,
      <<"don't", "care">>, <<"dont", "care">>, <<"impossible">>,
      <<"too", "much">>, <<"too", "hard">> }
\* inputClassification.assignmentKeywords
assignmentKeywords ==
    { <<"assignment">>, <<"essay">>, <<"paper">>, <<"write", "a">>,
      <<"write", "an">>, <<"read", "the">>, <<"read", "a">>,
      <<"read", "an">>, <<"book", "report">>, <<"compare">>,
      <<"contrast">>, <<"analyze">>, <<"research", "paper">>,
      <<"research", "project">>, <<"homework", "assignment">>,
      <<"due", "date">>, <<"how", "do", "i">>, <<"how", "to">>,
      <<"what", "should", "i">>, <<"help", "me">>, <<"show", "me">>,
      <<"explain">>, <<"break", "down">>, <<"steps">>, <<"guide">>,
      <<"walk", "me", "through">> }
\* inputClassification.directRequestPatterns, /help me (write|do|complete|finish)/i
\* expanded into its four alternatives
directRequestPatterns ==
    { <<"help", "me", "write">>, <<"help", "me", "do">>,
      <<"help", "me", "complete">>, <<"help", "me", "finish">>,
      <<"how", "do", "i">>, <<"how", "to">>, <<"show", "me">>,
      <<"break", "down">>, <<"steps">>, <<"guide">> }
\* rules.filterInappropriateContent.categories (sexual, violent, selfHarm)
contentPolicyKeywords ==
    { <<"sexual">>, <<"sex">>, <<"porn">>, <<"nude">>, <<"naked">>,
      <<"masturbat">>, <<"orgasm">>, <<"erotic">>, <<"kink">>,
      <<"fetish">>, <<"intercourse">>, <<"genital">>, <<"penis">>,
      <<"vagina">>, <<"breast">>, <<"ass">>, <<"butt">>, <<"dick">>,
      <<"pussy">>, <<"kill">>, <<"murder">>, <<"suicide">>, <<"bomb">>,
      <<"weapon">>, <<"gun">>, <<"shoot">>, <<"stab">>, <<"attack">>,
      <<"assault">>, <<"violence">>, <<"violent">>, <<"harm">>, <<"hurt">>,
      <<"torture">>, <<"abuse">>, <<"fight">>, <<"war">>, <<"battle">>,
      <<"self", "harm">>, <<"self-harm">>, <<"cutting">>,
      <<"cut", "myself">>, <<"hurt", "myself">>, <<"end", "my", "life">>,
      <<"kill", "myself">>, <<"suicidal">>, <<"overdose">>,
      <<"overdosing">>, <<"hang", "myself">>, <<"jump", "off">>,
      <<"end", "it">> }

----------------------------------------------------------------------------
(* The texts of the model *)

\* what the student types into the assignment input or the answer input
Typed ==
    { <<"my", "mind", "is", "frozen">>,
      <<"i", "hate", "this">>,
      <<"it", "is", "too", "hard">>,
      <<"break", "it", "down">>,
      <<"the", "reading", "is", "just", "confusing">>,
      <<"it", "feels", "irrelevant", "because", "it", "is", "old">>,
      <<"I'm", "ready", "to", "start">>,
      <<"we", "went", "to", "the", "park", "and", "then", "had", "lunch",
        "with", "friends", "today">>,
      <<"how", "to", "pass", "the", "class">>,
      <<"what", "is", "the", "point?">>,
      <<"help", "me", "write", "my", "paper">>,
      <<"I", "can't", "do", "this,", "it's", "too", "much">>,
      <<"this", "feels", "kind", "of", "pointless">>,
      <<"help", "me", "write", "an", "essay", "about", "World", "War", "I">>,
      <<"it", "feels", "kind", "of", "boring">> }

\* the labels of the action buttons the responses carry
ActionLabels ==
    { <<"Pause">>, <<"Come", "back", "later">>, <<"Make", "this", "smaller">>,
      <<"Start", "this", "step">>, <<"Make", "it", "smaller">>,
      <<"That", "makes", "sense">>, <<"Talk", "more", "about", "this">>,
      <<"Help", "me", "get", "through", "the", "minimum">>,
      <<"Pause", "for", "now">>, <<"Break", "this", "down", "differently">> }

\* the input handleCanonicalAction passes for 'make-smaller'
makeItSmallerInput == <<"make", "it", "smaller">>

\* the questions Frank can ask (askOneClarifyingQuestion, narrowChoices,
\* askFunctionCheckQuestion)
Questions ==
    {
      <<"What", "about", "it", "might", "feel", "the", "worst", "right",
        "now?">>,
      <<"What", "about", "it", "feels", "the", "worst", "right", "now?">>,
      <<"Could", "it", "be", "that", "it", "doesn't", "connect", "to",
        "your", "life,", "or", "maybe", "you", "don't", "see", "why",
        "you're", "being", "asked", "to", "do", "it?">>,
      <<"Is", "the", "problem", "more", "that", "it", "doesn't", "connect",
        "to", "your", "life,", "or", "you", "don't", "see", "why",
        "you're", "being", "asked", "to", "do", "it?">>,
      <<"What", "might", "be", "missing", "that", "would", "make", "it",
        "feel", "more", "meaningful?">>,
      <<"What's", "missing", "that", "would", "make", "it", "feel",
        "meaningful?">>,
      <<"What", "part", "might", "feel", "the", "hardest?">>,
      <<"What", "part", "feels", "the", "hardest?">>,
      <<"What", "feels", "like", "too", "much?">>,
      <<"What", "might", "be", "bothering", "you", "about", "this?">>,
      <<"What's", "bothering", "you", "about", "this?">>,
      <<"What", "might", "need", "to", "change", "for", "it", "to", "feel",
        "more", "engaging?">>,
      <<"What", "would", "need", "to", "change", "for", "it", "to", "feel",
        "more", "engaging?">>,
      <<"Tell", "me", "more", "about", "that.">>,
      <<"Are", "you", "still", "able", "to", "think,", "or", "do", "you",
        "want", "to", "slow", "things", "down?">> }

\* further texts handed to the predicates that are examined on their own
ExaminedTexts ==
    { <<"my", "assignment", "is", "due", "tomorrow">>,
      <<"I", "think", "it", "is", "boring">>,
      <<"why", "do", "we", "have", "to", "read", "this", "old", "book", "for",
        "the", "class", "anyway?">> }

\* every text a handler may receive or examine
AllTexts ==
    Typed \cup ActionLabels \cup {makeItSmallerInput} \cup Questions \cup ExaminedTexts

\* KEYWORDS-BEGIN
\* every string the source searches a text for
Keywords ==
    { <<" ">>, <<"i", "think">>, <<"maybe">>, <<"perhaps">>, <<"might">>,
      <<"could", "be">>, <<"it", "feels", "like">>,
      <<"it", "seems", "like">>, <<"i'm", "not", "sure">>,
      <<"im", "not", "sure">>, <<"i", "guess">>, <<"i", "suppose">>,
      <<"sort", "of">>, <<"kind", "of">>, <<"a", "little">>,
      <<"a", "bit">>, <<"somewhat">>, <<"possibly">>, <<"i", "wonder">>,
      <<"not", "really", "sure">>, <<"not", "sure">>, <<"unsure">>,
      <<"uncertain">>, <<"i", "hate">>, <<"i", "love">>, <<"this", "is">>,
      <<"that", "is">>, <<"it", "is">>, <<"always">>, <<"never">>,
      <<"impossible">>, <<"can't">>, <<"cannot">>, <<"won't">>,
      <<"will", "not">>, <<"definitely">>, <<"absolutely">>,
      <<"completely">>, <<"totally">>, <<"pointless">>, <<"useless">>,
      <<"waste">>, <<"i", "can't">>, <<"i", "cannot">>,
      <<"i", "give", "up">>, <<"i'm", "done">>, <<"im", "done">>,
      <<"i", "can't", "think">>, <<"can't", "process">>,
      <<"brain", "won't", "work">>, <<"mind", "is", "blank">>,
      <<"can't", "focus">>, <<"can't", "function">>, <<"shut", "down">>,
      <<"frozen">>, <<"paralyzed">>, <<"completely", "stuck">>,
      <<"nothing", "works">>, <<"can't", "do", "anything">>,
      <<"can't", "do", "this">>, <<"unbearable">>, <<"too", "much">>,
      <<"overwhelming">>, <<"intense">>, <<"extreme">>,
      <<"can't", "stand">>, <<"hate", "this">>, <<"terrible">>,
      <<"awful">>, <<"worst">>, <<"too", "hard">>,
      <<"this", "is", "too", "much">>, <<"cannot", "do", "this">>,
      <<"shutdown">>, <<"freeze">>, <<"stuck">>, <<"trapped">>,
      <<"can't", "handle">>, <<"cannot", "handle">>,
      <<"make", "it", "smaller">>, <<"break", "it", "down">>,
      <<"too", "big">>, <<"too", "large">>, <<"smaller", "steps">>,
      <<"tiny", "step">>, <<"one", "step">>, <<"simpler">>,
      <<"it", "doesn't", "feel">>, <<"it", "doesnt", "feel">>,
      <<"it", "doesn't", "seem">>, <<"it", "doesnt", "seem">>,
      <<"because">>, <<"the", "problem", "is">>,
      <<"what's", "wrong", "is">>, <<"whats", "wrong", "is">>,
      <<"doesn't", "connect">>, <<"doesnt", "connect">>,
      <<"not", "relevant">>, <<"irrelevant">>, <<"hate">>, <<"love">>,
      <<"feel">>, <<"feeling">>, <<"frustrated">>, <<"anxious">>,
      <<"stressed">>, <<"overwhelmed">>, <<"difficult">>, <<"hard">>,
      <<"sucks">>, <<"boring">>, <<"waste", "of", "time">>,
      <<"don't", "care">>, <<"dont", "care">>, <<"assignment">>,
      <<"essay">>, <<"paper">>, <<"write", "a">>, <<"write", "an">>,
      <<"read", "the">>, <<"read", "a">>, <<"read", "an">>,
      <<"book", "report">>, <<"compare">>, <<"contrast">>, <<"analyze">>,
      <<"research", "paper">>, <<"research", "project">>,
      <<"homework", "assignment">>, <<"due", "date">>,
      <<"how", "do", "i">>, <<"how", "to">>, <<"what", "should", "i">>,
      <<"help", "me">>, <<"show", "me">>, <<"explain">>,
      <<"break", "down">>, <<"steps">>, <<"guide">>,
      <<"walk", "me", "through">>, <<"help", "me", "write">>,
      <<"help", "me", "do">>, <<"help", "me", "complete">>,
      <<"help", "me", "finish">>, <<"sexual">>, <<"sex">>, <<"porn">>,
      <<"nude">>, <<"naked">>, <<"masturbat">>, <<"orgasm">>, <<"erotic">>,
      <<"kink">>, <<"fetish">>, <<"intercourse">>, <<"genital">>,
      <<"penis">>, <<"vagina">>, <<"breast">>, <<"ass">>, <<"butt">>,
      <<"dick">>, <<"pussy">>, <<"kill">>, <<"murder">>, <<"suicide">>,
      <<"bomb">>, <<"weapon">>, <<"gun">>, <<"shoot">>, <<"stab">>,
      <<"attack">>, <<"assault">>, <<"violence">>, <<"violent">>,
      <<"harm">>, <<"hurt">>, <<"torture">>, <<"abuse">>, <<"fight">>,
      <<"war">>, <<"battle">>, <<"self", "harm">>, <<"self-harm">>,
      <<"cutting">>, <<"cut", "myself">>, <<"hurt", "myself">>,
      <<"end", "my", "life">>, <<"kill", "myself">>, <<"suicidal">>,
      <<"overdose">>, <<"overdosing">>, <<"hang", "myself">>,
      <<"jump", "off">>, <<"end", "it">>, <<"my", "mind", "is", "frozen">>,
      <<"i", "hate", "this">>, <<"it", "is", "too", "hard">>,
      <<"the", "reading", "is", "just", "confusing">>,
      <<"it", "feels", "irrelevant", "because", "it", "is", "old">>,
      <<"I'm", "ready", "to", "start">>,
      <<"we", "went", "to", "the", "park", "and", "then", "had", "lunch", "with", "friends", "today">>,
      <<"how", "to", "pass", "the", "class">>,
      <<"what", "is", "the", "point?">>,
      <<"help", "me", "write", "my", "paper">>,
      <<"I", "can't", "do", "this,", "it's", "too", "much">>,
      <<"this", "feels", "kind", "of", "pointless">>,
      <<"help", "me", "write", "an", "essay", "about", "World", "War", "I">>,
      <<"it", "feels", "kind", "of", "boring">>, <<"Pause">>,
      <<"Come", "back", "later">>, <<"Make", "this", "smaller">>,
      <<"Start", "this", "step">>, <<"Make", "it", "smaller">>,
      <<"That", "makes", "sense">>, <<"Talk", "more", "about", "this">>,
      <<"Help", "me", "get", "through", "the", "minimum">>,
      <<"Pause", "for", "now">>,
      <<"Break", "this", "down", "differently">>,
      <<"What", "about", "it", "might", "feel", "the", "worst", "right", "now?">>,
      <<"What", "about", "it", "feels", "the", "worst", "right", "now?">>,
      <<"Could", "it", "be", "that", "it", "doesn't", "connect", "to", "your", "life,", "or", "maybe", "you", "don't", "see", "why", "you're", "being", "asked", "to", "do", "it?">>,
      <<"Is", "the", "problem", "more", "that", "it", "doesn't", "connect", "to", "your", "life,", "or", "you", "don't", "see", "why", "you're", "being", "asked", "to", "do", "it?">>,
      <<"What", "might", "be", "missing", "that", "would", "make", "it", "feel", "more", "meaningful?">>,
      <<"What's", "missing", "that", "would", "make", "it", "feel", "meaningful?">>,
      <<"What", "part", "might", "feel", "the", "hardest?">>,
      <<"What", "part", "feels", "the", "hardest?">>,
      <<"What", "feels", "like", "too", "much?">>,
      <<"What", "might", "be", "bothering", "you", "about", "this?">>,
      <<"What's", "bothering", "you", "about", "this?">>,
      <<"What", "might", "need", "to", "change", "for", "it", "to", "feel", "more", "engaging?">>,
      <<"What", "would", "need", "to", "change", "for", "it", "to", "feel", "more", "engaging?">>,
      <<"Tell", "me", "more", "about", "that.">>,
      <<"Are", "you", "still", "able", "to", "think,", "or", "do", "you", "want", "to", "slow", "things", "down?">>,
      <<"my", "assignment", "is", "due", "tomorrow">>,
      <<"I", "think", "it", "is", "boring">>,
      <<"why", "do", "we", "have", "to", "read", "this", "old", "book", "for", "the", "class", "anyway?">>,
      <<"doesn't", "matter">>, <<"doesnt", "matter">>,
      <<"not", "important">>, <<"doesn't", "make", "sense">>,
      <<"doesnt", "make", "sense">>, <<"no", "point">>,
      <<"why", "do", "i", "need">>, <<"why", "do", "we", "need">>,
      <<"panic">>, <<"can't", "think">>, <<"i", "can't", "do", "this">>,
      <<"i", "cannot", "do", "this">>, <<"i", "need">>, <<"can", "you">>,
      <<"actually">>, <<"wait">>, <<"hold", "on">>, <<"never", "mind">>,
      <<"forget", "it">>, <<"different">>, <<"what">>, <<"why">>,
      <<"how">>, <<"when">>, <<"where">>, <<"who">>, <<"which">>,
      <<"can">>, <<"could">>, <<"should">>, <<"would">>, <<"?">>,
      <<"don't", "know", "why">>, <<"dont", "know", "why">>, <<"bother">>,
      <<"bothers", "me">>,
      <<"If", "it's", "bothering", "you", "this", "much,", "it", "probably", "matters", "to", "you.">>,
      <<"worse">>, <<"feeling", "worse">>, <<"used", "to">>, <<"before">>,
      <<"Sometimes", "feeling", "worse", "happens", "when", "you're", "noticing", "more,", "not", "because", "you're", "failing.">>,
      <<"point">>, <<"purpose">>,
      <<"That", "question", "makes", "sense.">>,
      <<"It", "sounds", "like", "this", "might", "feel", "really", "hard.">>,
      <<"That", "sounds", "really", "hard.">>,
      <<"doesn't", "feel", "relevant">>, <<"doesnt", "feel", "relevant">>,
      <<"If", "something", "feels", "like", "it", "might", "not", "be", "relevant,", "that", "can", "make", "it", "harder", "to", "care.">>,
      <<"If", "something", "feels", "pointless,", "it's", "way", "harder", "to", "care.">>,
      <<"When", "something", "doesn't", "feel", "meaningful,", "it", "can", "be", "hard", "to", "engage", "with", "it.">>,
      <<"When", "something", "doesn't", "feel", "meaningful,", "it's", "hard", "to", "engage", "with", "it.">>,
      <<"This", "might", "feel", "like", "a", "lot", "right", "now.">>,
      <<"This", "feels", "like", "a", "lot", "right", "now.">>,
      <<"This", "looks", "like", "a", "lot.">>, <<"I", "hear", "you.">>,
      <<"When", "something", "doesn't", "seem", "to", "connect", "to", "your", "life,", "it", "can", "be", "hard", "to", "see", "why", "it", "matters.">>,
      <<"When", "something", "doesn't", "connect", "to", "your", "life,", "it's", "hard", "to", "see", "why", "it", "matters.">>,
      <<"I", "hear", "what", "you're", "saying.">>,
      <<"That", "makes", "sense.">>,
      <<"You", "can", "pause", "whenever", "you", "want.">>,
      <<"When", "something", "feels", "unbearable,", "it's", "often", "because", "it's", "colliding", "with", "something", "important.">>,
      <<"This", "feels", "really", "intense", "right", "now.">>,
      <<"Want", "to", "keep", "going,", "or", "make", "this", "into", "one", "tiny", "step?">>,
      <<"it", "feels">>, <<"it", "seems">>, <<"it", "doesn't">>,
      <<"it", "doesnt">>, <<"it", "can't">>, <<"it", "cannot">>,
      <<"this", "feels">>, <<"this", "seems">>, <<"this", "doesn't">>,
      <<"this", "doesnt">>, <<"this", "can't">>, <<"this", "cannot">>,
      <<"that", "feels">>, <<"that", "seems">>, <<"that", "doesn't">>,
      <<"that", "doesnt">>, <<"that", "can't">>, <<"that", "cannot">>,
      <<"i", "is">>, <<"i", "feels">>, <<"i", "seems">>,
      <<"i", "doesn't">>, <<"i", "doesnt">>, <<"we", "is">>,
      <<"we", "feels">>, <<"we", "seems">>, <<"we", "doesn't">>,
      <<"we", "doesnt">>, <<"we", "can't">>, <<"we", "cannot">>,
      <<"they", "is">>, <<"they", "feels">>, <<"they", "seems">>,
      <<"they", "doesn't">>, <<"they", "doesnt">>, <<"they", "can't">>,
      <<"they", "cannot">>, <<"since">>, <<"if">>, <<"i", "don't">>,
      <<"i", "dont">>, <<"i'm">>, <<"im">>, <<"seems">>, <<"feels">>,
      <<"looks">>, <<"sounds">>, <<"i", "feel", "like">>,
      <<"i", "feel", "as", "if">>, <<"hardest">>, <<"problem">>,
      <<"issue">>, <<"relevant">>, <<"matter">>, <<"meaning">>,
      <<"connect">>, <<"relate">>, <<"link">>, <<"tie">>, <<"bad", "at">>,
      <<"don't", "get">>, <<"dont", "get">>, <<"what", "makes">>,
      <<"what", "about">>, <<"it">>, <<"this">>, <<"that">>,
      <<"i", "don't", "know">>, <<"i", "dont", "know">>, <<"what", "if">>,
      <<"how", "about">>, <<"why", "would">>, <<"could", "it">>,
      <<"it's">>, <<"its">>, <<"is">>, <<"are">>, <<"doesn't">>,
      <<"doesnt">>, <<"struggling">>, <<"stress">>, <<"don't", "know">>,
      <<"deal", "with">>, <<"cope">>, <<"handle">>, <<"situation">>,
      <<"seem">>, <<"not", "working">>, <<"not", "helpful">>,
      <<"Take", "a", "Breath">>, <<"Name", "What's", "Happening">>,
      <<"What", "Can", "You", "Control?">>, <<"One", "Small", "Action">>,
      <<"Be", "Kind", "to", "Yourself">>,
      <<"Remember", "It's", "Temporary">>,
      <<"Identify", "the", "Themes", "(Like", "Finding", "the", "Main", "Characters)">>,
      <<"Find", "Current", "Connections", "(The", "'Wait,", "This", "Sounds", "Familiar'", "Step)">>,
      <<"Create", "Your", "Comparison", "Framework", "(The", "Organizing", "Step)">>,
      <<"Gather", "Your", "Evidence", "(The", "Detective", "Work)">>,
      <<"Write", "Your", "First", "Draft", "(The", "'Just", "Get", "It", "Down'", "Step)">>,
      <<"Revise", "and", "Polish", "(The", "'Make", "It", "Shine'", "Step)">>,
      <<"Understand", "What", "You're", "Being", "Asked">>,
      <<"Brainstorm", "Your", "Ideas">>, <<"Create", "an", "Outline">>,
      <<"Write", "Your", "First", "Draft">>, <<"Revise", "and", "Edit">>,
      <<"Break", "It", "Into", "Smaller", "Pieces">>,
      <<"Start", "With", "the", "Easiest", "Part">>,
      <<"Tackle", "the", "Rest", "One", "at", "a", "Time">>,
      <<"Review", "and", "Complete">>, <<"correlate">>, <<"theme">>,
      <<"write">>, <<"read">>, <<"book">>, <<"One", "Tiny", "Thing">>,
      <<"pause">>, <<"come", "back">>, <<"later">>,
      <<"If", "it", "feels", "like", "it", "might", "not", "be", "relevant,", "that", "can", "make", "it", "harder", "to", "care.">>,
      <<"If", "it", "feels", "irrelevant,", "that", "makes", "it", "hard", "to", "care", "or", "try.">>,
      <<"don't", "understand">>, <<"dont", "understand">>,
      <<"Not", "understanding", "why", "you", "need", "to", "do", "something", "makes", "it", "harder", "to", "care.">>,
      <<"not", "good", "at">>,
      <<"Feeling", "like", "you're", "not", "good", "at", "something", "makes", "it", "harder", "to", "start.">>,
      <<"We", "can", "go", "a", "few", "ways", "from", "here.">>,
      <<"We", "can", "work", "with", "this.">>, <<"feels", "like">>,
      <<"seems", "like">>, <<"i'm", "ready">>, <<"im", "ready">>,
      <<"ready">>, <<"let's", "start">>, <<"lets", "start">>,
      <<"let's", "go">>, <<"lets", "go">>, <<"help", "me", "start">>,
      <<"i", "want", "to", "start">>, <<"can", "we", "start">>,
      <<"how", "do", "i", "start">>, <<"what's", "the", "first", "step">>,
      <<"whats", "the", "first", "step">>, <<"first", "step">>,
      <<"begin">>, <<"start", "now">>, <<"i", "want", "to", "do", "this">>,
      <<"let's", "do", "this">>, <<"lets", "do", "this">>,
      <<"i'm", "ready", "to", "start">>, <<"im", "ready", "to", "start">>,
      <<"help", "me", "get", "through">>, <<"make", "this", "smaller">>,
      <<"break", "this", "down">>, <<"start", "this">>,
      <<"get", "started">>, <<"help">>, <<"how", "do">>, <<"start">>,
      <<"make-smaller">>, <<"start-step">>, <<"that-makes-sense">>,
      <<"talk-more-about-this">>, <<"help-me-get-through-the-minimum">> }
\* KEYWORDS-END

\* userInput.toLowerCase(), as characters, of every text and keyword
Str == [t \in AllTexts \cup Keywords |-> toLowerCase(chars(t))]

\* for every text, the keywords that str[text] contains
containedKeywords(str) ==
    [t \in AllTexts |-> {k \in Keywords : includesChars(str[t], str[k])}]

\* for every text, the keywords its lower-cased form contains
Profile == containedKeywords(Str)

\* for every text, the keywords its lower-cased form starts with
Prefixes == [t \in AllTexts |-> {k \in Keywords : startsWithChars(Str[t], Str[k])}]

\* for every text, the keywords its lower-cased form ends with
Suffixes == [t \in AllTexts |-> {k \in Keywords : endsWithChars(Str[t], Str[k])}]

\* for every text, the number of its characters
Lengths == [t \in AllTexts |-> Len(Str[t])]

\* input.toLowerCase().includes(k); also /k/i.test(input)
includes(t, k) == k \in contained[t]

\* list.some(k => input.toLowerCase().includes(k))
includesSome(t, list) == \E k \in list : includes(t, k)

\* input.toLowerCase().startsWith(k); also /^k/i.test(input)
startsWith(t, k) == k \in begins[t]

\* /k$/.test(input.trim())
endsWith(t, k) == k \in ends[t]

\* input.split(' ').length and input.trim().split(/\s+/).length
wordCount(t) == Len(t)

\* input.trim().length
trimLength(t) == lengths[t]

----------------------------------------------------------------------------
(* Classification of the input *)

hasCertaintyHandling == config # "none"
hasInputClassification == config # "none"
dobrowskiEnabled == config = "part_001"

\* detectCertaintyLevel as it would be if the low-certainty markers were
\* checked before the high-certainty markers
detectCertaintyLowFirst(userInput) ==
    IF userInput = NoText THEN "medium"
    ELSE IF ~hasCertaintyHandling THEN "medium"
    ELSE IF includesSome(userInput, lowCertaintyMarkers) THEN "low"
    ELSE IF includesSome(userInput, highCertaintyMarkers) THEN "high"
    ELSE "medium"

\* detectCertaintyLevel as it would be without its check of the low-certainty
\* markers
detectCertaintyWithoutLow(userInput) ==
    IF userInput = NoText THEN "medium"
    ELSE IF ~hasCertaintyHandling THEN "medium"
    ELSE IF includesSome(userInput, highCertaintyMarkers) THEN "high"
    ELSE "medium"

detectCertaintyLevel(userInput) ==
    IF userInput = NoText THEN "medium"
    ELSE IF ~hasCertaintyHandling THEN "medium"
    ELSE IF includesSome(userInput, highCertaintyMarkers) THEN "high"
    ELSE IF includesSome(userInput, lowCertaintyMarkers) THEN "low"
    ELSE "medium"

\* a signal; hasLossOfFunction is FALSE where the source leaves it undefined
Signal(type, certaintyLevel, lof) ==
    [type |-> type, certaintyLevel |-> certaintyLevel, hasLossOfFunction |-> lof]

\* classifyInput once certaintyLevel is computed; mode is this.conversationMode
classifyInMode(userInput, certaintyLevel, mode) ==
    IF ~hasInputClassification THEN
        IF wordCount(userInput) < 10 THEN Signal("emotional", "medium", FALSE)
        ELSE Signal("ready_for_action", "medium", FALSE)
    ELSE IF dobrowskiEnabled /\ includesSome(userInput, lossOfFunctionSignals) THEN
        Signal("overwhelmed", certaintyLevel, TRUE)
    ELSE IF dobrowskiEnabled /\ includesSome(userInput, intensityOnlySignals) THEN
        Signal("intense_emotion", certaintyLevel, FALSE)
    ELSE IF includesSome(userInput, overwhelmSignals) THEN
        Signal("overwhelmed", certaintyLevel, FALSE)
    ELSE IF includesSome(userInput, shrinkSignals) THEN
        Signal("request_to_shrink", certaintyLevel, FALSE)
    ELSE IF mode = M("CLARIFYING") /\ trimLength(userInput) > 0 THEN
        Signal("ready_for_action", certaintyLevel, FALSE)
    ELSE IF mode # M("CLARIFYING")
            /\ includesSome(userInput, explanatoryPatterns) THEN
        Signal("explanatory", certaintyLevel, FALSE)
    ELSE IF includesSome(userInput, emotionalKeywords) THEN
        Signal("emotional", certaintyLevel, FALSE)
    ELSE IF includesSome(userInput, assignmentKeywords) THEN
        Signal("ready_for_action", certaintyLevel, FALSE)
    ELSE IF wordCount(userInput) < 10 THEN
        Signal("emotional", certaintyLevel, FALSE)
    ELSE Signal("ready_for_action", certaintyLevel, FALSE)

classifyWithCertainty(userInput, certaintyLevel) ==
    classifyInMode(userInput, certaintyLevel, conversationMode)

\* classifyInput as it would be if the signal of the previous turn were kept
\* for an input that repeats it
classifyInputCached(userInput) ==
    IF /\ Len(conversationContext) > 0
       /\ conversationContext[Len(conversationContext)].input = userInput
    THEN Signal(conversationContext[Len(conversationContext)].signal,
                conversationContext[Len(conversationContext)].certaintyLevel,
                FALSE)
    ELSE classifyWithCertainty(userInput, detectCertaintyLevel(userInput))

classifyInput(userInput) ==
    classifyWithCertainty(userInput, detectCertaintyLevel(userInput))

----------------------------------------------------------------------------
(* Overwhelm, new topic, direct request *)

informationalPatterns ==
    { <<"irrelevant">>, <<"pointless">>, <<"doesn't", "matter">>,
      <<"doesnt", "matter">>, <<"don't", "care">>, <<"dont", "care">>,
      <<"boring">>, <<"useless">>, <<"waste">>, <<"not", "important">>,
      <<"not", "relevant">>, <<"doesn't", "make", "sense">>,
      <<"doesnt", "make", "sense">>, <<"no", "point">>,
      <<"why", "do", "i", "need">>, <<"why", "do", "we", "need">> }
explicitOverwhelmSignals ==
    { <<"too", "much">>, <<"can't">>, <<"cannot">>, <<"overwhelmed">>,
      <<"stressed">>, <<"anxious">>, <<"panic">>, <<"shut", "down">>,
      <<"frozen">>, <<"paralyzed">>, <<"can't", "think">>,
      <<"can't", "process">>, <<"brain", "won't", "work">>,
      <<"mind", "is", "blank">>, <<"can't", "focus">>,
      <<"can't", "function">>, <<"completely", "stuck">>,
      <<"nothing", "works">>, <<"can't", "do", "anything">>,
      <<"i", "give", "up">>, <<"i'm", "done">>, <<"im", "done">>,
      <<"i", "can't", "do", "this">>, <<"i", "cannot", "do", "this">> }
hardcodedOverwhelmSignals ==
    { <<"i", "can't">>, <<"i", "cannot">>, <<"too", "much">>,
      <<"too", "hard">>, <<"i", "give", "up">>,
      <<"this", "is", "too", "much">>, <<"can't", "do", "this">>,
      <<"cannot", "do", "this">>, <<"shutdown">>, <<"shut", "down">>,
      <<"freeze">>, <<"frozen">>, <<"stuck">>, <<"trapped">>,
      <<"i'm", "done">>, <<"im", "done">>, <<"can't", "handle">>,
      <<"cannot", "handle">> }

detectsOverwhelmSignal(input) ==
    IF input = NoText THEN FALSE
    ELSE IF includesSome(input, informationalPatterns)
            /\ ~includesSome(input, explicitOverwhelmSignals) THEN FALSE
    ELSE includesSome(input, hardcodedOverwhelmSignals)

\* list.some(k => input.toLowerCase().startsWith(k)); also /^(k1|k2|...)/i.test(input)
startsWithSome(t, list) == \E k \in list : startsWith(t, k)

\* /^(help me|i need|can you|show me|how do i|how to)/i
newTopicRequestPrefixes ==
    { <<"help", "me">>, <<"i", "need">>, <<"can", "you">>, <<"show", "me">>,
      <<"how", "do", "i">>, <<"how", "to">> }

\* /^(actually|wait|hold on|never mind|forget it|different)/i
newTopicSwitchPrefixes ==
    { <<"actually">>, <<"wait">>, <<"hold", "on">>, <<"never", "mind">>,
      <<"forget", "it">>, <<"different">> }

\* /^(what|why|how|when|where|who|which|can|could|should|would)/
questionWordPrefixes ==
    { <<"what">>, <<"why">>, <<"how">>, <<"when">>, <<"where">>, <<"who">>,
      <<"which">>, <<"can">>, <<"could">>, <<"should">>, <<"would">> }

\* ctx is this.conversationContext at the time of the call
introducesNewTopic(userInput, ctx) ==
    IF Len(ctx) = 0 THEN FALSE
    ELSE IF \/ startsWithSome(userInput, newTopicRequestPrefixes)
            \/ startsWithSome(userInput, newTopicSwitchPrefixes)
            \/ endsWith(userInput, <<"?">>)
            \/ wordCount(userInput) > 20 THEN TRUE
    ELSE startsWithSome(userInput, questionWordPrefixes)

\* the fallback patterns are the patterns of the configurations
isDirectAssignmentRequest(input) == includesSome(input, directRequestPatterns)

----------------------------------------------------------------------------
(* The sentences Frank composes *)

normalizeConflictEnabled == dobrowskiEnabled
validateWithoutGlorifyingEnabled == dobrowskiEnabled
meaningMakingOptInEnabled == dobrowskiEnabled

mirrorEmotion(userInput, certaintyLevel) ==
    LET isLowCertainty == certaintyLevel = "low" IN
    IF includesSome(userInput, {<<"don't", "know", "why">>, <<"dont", "know", "why">>,
                                <<"bother">>, <<"bothers", "me">>})
       /\ normalizeConflictEnabled THEN
        <<"If", "it's", "bothering", "you", "this", "much,", "it", "probably", "matters", "to", "you.">>
    ELSE IF includesSome(userInput, {<<"worse">>, <<"feeling", "worse">>,
                                     <<"used", "to">>, <<"before">>})
            /\ validateWithoutGlorifyingEnabled THEN
        <<"Sometimes", "feeling", "worse", "happens", "when", "you're", "noticing", "more,", "not", "because", "you're", "failing.">>
    ELSE IF includesSome(userInput, {<<"point">>, <<"purpose">>,
                                     <<"doesn't", "matter">>, <<"doesnt", "matter">>})
            /\ meaningMakingOptInEnabled THEN
        <<"That", "question", "makes", "sense.">>
    ELSE IF includes(userInput, <<"hate">>) THEN
        IF isLowCertainty THEN <<"It", "sounds", "like", "this", "might", "feel", "really", "hard.">>
        ELSE <<"That", "sounds", "really", "hard.">>
    ELSE IF includesSome(userInput, {<<"doesn't", "feel", "relevant">>,
                                     <<"doesnt", "feel", "relevant">>}) THEN
        IF isLowCertainty
        THEN <<"If", "something", "feels", "like", "it", "might", "not", "be", "relevant,", "that", "can", "make", "it", "harder", "to", "care.">>
        ELSE <<"If", "something", "feels", "pointless,", "it's", "way", "harder", "to", "care.">>
    ELSE IF includesSome(userInput, {<<"boring">>, <<"pointless">>}) THEN
        IF isLowCertainty
        THEN <<"When", "something", "doesn't", "feel", "meaningful,", "it", "can", "be", "hard", "to", "engage", "with", "it.">>
        ELSE <<"When", "something", "doesn't", "feel", "meaningful,", "it's", "hard", "to", "engage", "with", "it.">>
    ELSE IF includesSome(userInput, {<<"difficult">>, <<"hard">>}) THEN
        IF isLowCertainty THEN <<"This", "might", "feel", "like", "a", "lot", "right", "now.">>
        ELSE <<"This", "feels", "like", "a", "lot", "right", "now.">>
    ELSE IF includesSome(userInput, {<<"overwhelmed">>, <<"too", "much">>}) THEN
        <<"This", "looks", "like", "a", "lot.">>
    ELSE <<"I", "hear", "you.">>

askOneClarifyingQuestion(userInput, certaintyLevel) ==
    LET isLowCertainty == certaintyLevel = "low" IN
    IF includes(userInput, <<"hate">>) THEN
        IF isLowCertainty THEN <<"What", "about", "it", "might", "feel", "the", "worst", "right", "now?">>
        ELSE <<"What", "about", "it", "feels", "the", "worst", "right", "now?">>
    ELSE IF includesSome(userInput, {<<"doesn't", "feel", "relevant">>,
                                     <<"doesnt", "feel", "relevant">>}) THEN
        IF isLowCertainty
        THEN <<"Could", "it", "be", "that", "it", "doesn't", "connect", "to", "your", "life,", "or", "maybe", "you", "don't", "see", "why", "you're", "being", "asked", "to", "do", "it?">>
        ELSE <<"Is", "the", "problem", "more", "that", "it", "doesn't", "connect", "to", "your", "life,", "or", "you", "don't", "see", "why", "you're", "being", "asked", "to", "do", "it?">>
    ELSE IF includesSome(userInput, {<<"boring">>, <<"pointless">>}) THEN
        IF isLowCertainty THEN <<"What", "might", "be", "missing", "that", "would", "make", "it", "feel", "more", "meaningful?">>
        ELSE <<"What's", "missing", "that", "would", "make", "it", "feel", "meaningful?">>
    ELSE IF includesSome(userInput, {<<"difficult">>, <<"hard">>}) THEN
        IF isLowCertainty THEN <<"What", "part", "might", "feel", "the", "hardest?">>
        ELSE <<"What", "part", "feels", "the", "hardest?">>
    ELSE IF includesSome(userInput, {<<"overwhelmed">>, <<"too", "much">>}) THEN
        <<"What", "feels", "like", "too", "much?">>
    ELSE IF isLowCertainty THEN <<"What", "might", "be", "bothering", "you", "about", "this?">>
    ELSE <<"What's", "bothering", "you", "about", "this?">>

reflectMeaning(userInput, certaintyLevel) ==
    LET isLowCertainty == certaintyLevel = "low" IN
    IF includesSome(userInput, {<<"doesn't", "feel", "relevant">>,
                                <<"doesnt", "feel", "relevant">>}) THEN
        IF isLowCertainty
        THEN <<"If", "something", "feels", "like", "it", "might", "not", "be", "relevant,", "that", "can", "make", "it", "harder", "to", "care.">>
        ELSE <<"If", "something", "feels", "pointless,", "it's", "way", "harder", "to", "care.">>
    ELSE IF includesSome(userInput, {<<"doesn't", "connect">>, <<"doesnt", "connect">>}) THEN
        IF isLowCertainty
        THEN <<"When", "something", "doesn't", "seem", "to", "connect", "to", "your", "life,", "it", "can", "be", "hard", "to", "see", "why", "it", "matters.">>
        ELSE <<"When", "something", "doesn't", "connect", "to", "your", "life,", "it's", "hard", "to", "see", "why", "it", "matters.">>
    ELSE IF includes(userInput, <<"because">>) THEN <<"I", "hear", "what", "you're", "saying.">>
    ELSE <<"That", "makes", "sense.">>

narrowChoices(userInput, certaintyLevel) ==
    LET isLowCertainty == certaintyLevel = "low" IN
    IF includesSome(userInput, {<<"doesn't", "feel", "relevant">>,
                                <<"doesnt", "feel", "relevant">>,
                                <<"doesn't", "connect">>, <<"doesnt", "connect">>}) THEN
        IF isLowCertainty
        THEN <<"Could", "it", "be", "that", "it", "doesn't", "connect", "to", "your", "life,", "or", "maybe", "you", "don't", "see", "why", "you're", "being", "asked", "to", "do", "it?">>
        ELSE <<"Is", "the", "problem", "more", "that", "it", "doesn't", "connect", "to", "your", "life,", "or", "you", "don't", "see", "why", "you're", "being", "asked", "to", "do", "it?">>
    ELSE IF includesSome(userInput, {<<"boring">>, <<"pointless">>}) THEN
        IF isLowCertainty THEN <<"What", "might", "need", "to", "change", "for", "it", "to", "feel", "more", "engaging?">>
        ELSE <<"What", "would", "need", "to", "change", "for", "it", "to", "feel", "more", "engaging?">>
    ELSE <<"Tell", "me", "more", "about", "that.">>

gentleReassurance == <<"You", "can", "pause", "whenever", "you", "want.">>

handleIntensityAsInformation(userInput) ==
    IF includesSome(userInput, {<<"unbearable">>, <<"too", "much">>,
                                <<"overwhelming">>, <<"intense">>}) THEN
        <<"When", "something", "feels", "unbearable,", "it's", "often", "because", "it's", "colliding", "with", "something", "important.">>
    ELSE IF includesSome(userInput, {<<"bother">>, <<"bothers", "me">>}) THEN
        <<"If", "it's", "bothering", "you", "this", "much,", "it", "probably", "matters", "to", "you.">>
    ELSE <<"This", "feels", "really", "intense", "right", "now.">>

askFunctionCheckQuestion ==
    <<"Are", "you", "still", "able", "to", "think,", "or", "do", "you", "want", "to", "slow", "things", "down?">>

permissionBasedTransition ==
    <<"Want", "to", "keep", "going,", "or", "make", "this", "into", "one", "tiny", "step?">>

----------------------------------------------------------------------------
(* Answer detection *)

\* /^(it|this|that|i|we|they) (is|feels|seems|doesn't|doesnt|can't|cannot)/i
declarativeSubjectVerbPrefixes ==
    { <<"it", "is">>, <<"it", "feels">>, <<"it", "seems">>,
      <<"it", "doesn't">>, <<"it", "doesnt">>, <<"it", "can't">>,
      <<"it", "cannot">>, <<"this", "is">>, <<"this", "feels">>,
      <<"this", "seems">>, <<"this", "doesn't">>, <<"this", "doesnt">>,
      <<"this", "can't">>, <<"this", "cannot">>, <<"that", "is">>,
      <<"that", "feels">>, <<"that", "seems">>, <<"that", "doesn't">>,
      <<"that", "doesnt">>, <<"that", "can't">>, <<"that", "cannot">>,
      <<"i", "is">>, <<"i", "feels">>, <<"i", "seems">>,
      <<"i", "doesn't">>, <<"i", "doesnt">>, <<"i", "can't">>,
      <<"i", "cannot">>, <<"we", "is">>, <<"we", "feels">>,
      <<"we", "seems">>, <<"we", "doesn't">>, <<"we", "doesnt">>,
      <<"we", "can't">>, <<"we", "cannot">>, <<"they", "is">>,
      <<"they", "feels">>, <<"they", "seems">>, <<"they", "doesn't">>,
      <<"they", "doesnt">>, <<"they", "can't">>, <<"they", "cannot">> }

\* /^(because|since|when|if)/i, /^(i don't|i dont|i can't|i cannot|i'm|im)/i,
\* /^(seems|feels|looks|sounds)/i
declarativePrefixes ==
    { <<"because">>, <<"since">>, <<"when">>, <<"if">>,
      <<"i", "don't">>, <<"i", "dont">>, <<"i", "can't">>, <<"i", "cannot">>,
      <<"i'm">>, <<"im">>,
      <<"seems">>, <<"feels">>, <<"looks">>, <<"sounds">> }

\* /^(what|why|how|when|where|who|which|can|could|should|would|might|maybe|perhaps)/i
exploratoryPrefixes ==
    { <<"what">>, <<"why">>, <<"how">>, <<"when">>, <<"where">>, <<"who">>,
      <<"which">>, <<"can">>, <<"could">>, <<"should">>, <<"would">>,
      <<"might">>, <<"maybe">>, <<"perhaps">> }

\* /i (think|wonder|guess|suppose|feel like|feel as if)/i
exploratoryPhrases ==
    { <<"i", "think">>, <<"i", "wonder">>, <<"i", "guess">>, <<"i", "suppose">>,
      <<"i", "feel", "like">>, <<"i", "feel", "as", "if">> }

\* exploratoryPatterns.some(pattern => pattern.test(userInput.trim()))
isExploratory(userInput) ==
    \/ endsWith(userInput, <<"?">>)
    \/ startsWithSome(userInput, exploratoryPrefixes)
    \/ includesSome(userInput, exploratoryPhrases)

isShortOrDeclarative(userInput) ==
    IF wordCount(userInput) <= 10 THEN TRUE
    ELSE IF \/ startsWithSome(userInput, declarativeSubjectVerbPrefixes)
            \/ startsWithSome(userInput, declarativePrefixes) THEN TRUE
    ELSE IF isExploratory(userInput) THEN FALSE
    ELSE wordCount(userInput) <= 15

\* the topics, as a set: checkSemanticAlignment only asks whether the input
\* contains one of them
extractQuestionTopics(question) ==
    (IF includesSome(question, {<<"worst">>, <<"hardest">>})
     THEN {<<"worst">>, <<"hardest">>, <<"difficult">>, <<"problem">>, <<"issue">>}
     ELSE {})
    \cup
    (IF includesSome(question, {<<"relevant">>, <<"matter">>})
     THEN {<<"relevant">>, <<"matter">>, <<"point">>, <<"purpose">>, <<"meaning">>}
     ELSE {})
    \cup
    (IF includes(question, <<"connect">>)
     THEN {<<"connect">>, <<"relate">>, <<"link">>, <<"tie">>}
     ELSE {})
    \cup
    (IF includesSome(question, {<<"bother">>, <<"difficult">>})
     THEN {<<"bother">>, <<"difficult">>, <<"hard">>, <<"problem">>, <<"issue">>}
     ELSE {})

alignmentAnswerIndicators ==
    { <<"irrelevant">>, <<"boring">>, <<"pointless">>, <<"hard">>,
      <<"difficult">>, <<"bad", "at">>, <<"don't", "get">>,
      <<"dont", "get">>, <<"because">>, <<"seems">>, <<"feels">> }

\* the topic and relationship checks of checkSemanticAlignment, which return
\* true as soon as one matches
alignsWithQuestion(userInput, previousQuestion) ==
    IF includesSome(userInput, extractQuestionTopics(previousQuestion)) THEN TRUE
    ELSE IF includesSome(previousQuestion, {<<"worst">>, <<"hardest">>,
                                            <<"bother">>, <<"difficult">>})
            /\ includesSome(userInput, alignmentAnswerIndicators) THEN TRUE
    ELSE IF includesSome(previousQuestion, {<<"why">>, <<"what", "makes">>,
                                            <<"what", "about">>})
            /\ (\/ includesSome(userInput, {<<"because">>, <<"since">>})
                \/ startsWithSome(userInput, {<<"it">>, <<"this">>, <<"that">>})) THEN TRUE
    ELSE IF includesSome(previousQuestion, {<<"relevant">>, <<"connect">>,
                                            <<"matter">>, <<"point">>})
            /\ includesSome(userInput, {<<"irrelevant">>, <<"doesn't", "matter">>,
                                        <<"doesnt", "matter">>, <<"pointless">>,
                                        <<"boring">>}) THEN TRUE
    ELSE FALSE

checkSemanticAlignment(userInput, previousQuestion) ==
    IF alignsWithQuestion(userInput, previousQuestion) THEN TRUE
    ELSE conversationMode = M("CLARIFYING") /\ trimLength(userInput) > 3

uncertaintyIndicators ==
    { <<"i", "don't", "know">>, <<"i", "dont", "know">>, <<"not", "sure">>,
      <<"unsure">>, <<"uncertain">>, <<"maybe">>, <<"perhaps">>,
      <<"might">>, <<"could", "be">>, <<"possibly">>, <<"i", "think">>,
      <<"i", "guess">>, <<"i", "suppose">>, <<"i", "wonder">>,
      <<"what", "if">>, <<"how", "about">>, <<"why", "would">>,
      <<"could", "it">> }
answerIndicators ==
    { <<"because">>, <<"since">>, <<"when">>, <<"it's">>, <<"its">>,
      <<"this", "is">>, <<"that", "is">>, <<"seems">>, <<"feels">>,
      <<"is">>, <<"are">>, <<"doesn't">>, <<"doesnt">>, <<"can't">>,
      <<"cannot">>, <<"irrelevant">>, <<"boring">>, <<"pointless">>,
      <<"hard">>, <<"difficult">>, <<"bad", "at">>, <<"don't", "get">>,
      <<"dont", "get">> }

\* list.filter(k => input.toLowerCase().includes(k)).length
countIncluded(t, list) == Cardinality({k \in list : includes(t, k)})

\* reducesAmbiguity once the two counts are computed
reducesAmbiguityByCounts(userInput, uncertaintyCount, answerCount) ==
    IF uncertaintyCount > 1 THEN FALSE
    ELSE IF answerCount > 0 /\ uncertaintyCount = 0 THEN TRUE
    ELSE IF answerCount > 0 /\ uncertaintyCount <= 1 THEN TRUE
    ELSE IF wordCount(userInput) <= 8 /\ uncertaintyCount = 0 THEN TRUE
    ELSE uncertaintyCount = 0

reducesAmbiguity(userInput) ==
    reducesAmbiguityByCounts(userInput,
                             countIncluded(userInput, uncertaintyIndicators),
                             countIncluded(userInput, answerIndicators))

isSemanticAnswer(userInput, previousQuestion) ==
    /\ isShortOrDeclarative(userInput)
    /\ checkSemanticAlignment(userInput, previousQuestion)
    /\ reducesAmbiguity(userInput)

\* ctx is this.conversationContext at the time of the call
isAnsweringPreviousQuestion(userInput, ctx) ==
    IF Len(ctx) = 0 THEN FALSE
    ELSE LET lastContext == ctx[Len(ctx)] IN
         IF ~lastContext.hadQuestion THEN FALSE
         ELSE IF lastContext.lastQuestion = NoText THEN
             conversationMode = M("CLARIFYING") /\ trimLength(userInput) > 0
         ELSE isSemanticAnswer(userInput, lastContext.lastQuestion)

----------------------------------------------------------------------------
(* The task breakdown *)

Step(title, needsInput) == [title |-> title, needsInput |-> needsInput]

generalHelpKeywords ==
    { <<"hate">>, <<"difficult">>, <<"hard">>, <<"struggling">>,
      <<"stuck">>, <<"overwhelmed">>, <<"frustrated">>, <<"anxious">>,
      <<"stress">>, <<"can't">>, <<"cannot">>, <<"don't", "know">>,
      <<"help", "me">>, <<"feel">>, <<"feeling">>, <<"deal", "with">>,
      <<"cope">>, <<"handle">>, <<"situation">>, <<"problem">>,
      <<"issue">>, <<"doesn't">>, <<"doesnt">>, <<"seem">>, <<"relevant">>,
      <<"boring">>, <<"pointless">>, <<"useless">>, <<"sucks">>,
      <<"not", "working">>, <<"not", "helpful">>,
      <<"waste", "of", "time">> }
breakdownAssignmentKeywords ==
    { <<"assignment">>, <<"essay">>, <<"paper">>, <<"write", "a">>,
      <<"write", "an">>, <<"read", "the">>, <<"read", "a">>,
      <<"read", "an">>, <<"book", "report">>, <<"compare">>,
      <<"contrast">>, <<"analyze">>, <<"research", "paper">>,
      <<"research", "project">>, <<"homework", "assignment">>,
      <<"due", "date">> }

getResilienceSteps(includeRegulation) ==
    (IF includeRegulation THEN << Step(<<"Take", "a", "Breath">>, FALSE) >> ELSE << >>)
    \o << Step(<<"Name", "What's", "Happening">>, TRUE),
          Step(<<"What", "Can", "You", "Control?">>, TRUE),
          Step(<<"One", "Small", "Action">>, TRUE),
          Step(<<"Be", "Kind", "to", "Yourself">>, TRUE),
          Step(<<"Remember", "It's", "Temporary">>, FALSE) >>

getCompareContrastSteps ==
    << Step(<<"Identify", "the", "Themes", "(Like", "Finding", "the", "Main", "Characters)">>, FALSE),
       Step(<<"Find", "Current", "Connections", "(The", "'Wait,", "This", "Sounds", "Familiar'", "Step)">>, FALSE),
       Step(<<"Create", "Your", "Comparison", "Framework", "(The", "Organizing", "Step)">>, FALSE),
       Step(<<"Gather", "Your", "Evidence", "(The", "Detective", "Work)">>, FALSE),
       Step(<<"Write", "Your", "First", "Draft", "(The", "'Just", "Get", "It", "Down'", "Step)">>, FALSE),
       Step(<<"Revise", "and", "Polish", "(The", "'Make", "It", "Shine'", "Step)">>, FALSE) >>

getEssaySteps ==
    << Step(<<"Understand", "What", "You're", "Being", "Asked">>, FALSE),
       Step(<<"Brainstorm", "Your", "Ideas">>, FALSE),
       Step(<<"Create", "an", "Outline">>, FALSE),
       Step(<<"Write", "Your", "First", "Draft">>, FALSE),
       Step(<<"Revise", "and", "Edit">>, FALSE) >>

getGeneralSteps ==
    << Step(<<"Break", "It", "Into", "Smaller", "Pieces">>, FALSE),
       Step(<<"Start", "With", "the", "Easiest", "Part">>, FALSE),
       Step(<<"Tackle", "the", "Rest", "One", "at", "a", "Time">>, FALSE),
       Step(<<"Review", "and", "Complete">>, FALSE) >>

\* getSteps as it would be if the guardrail looked at the session only and
\* not at the includeRegulation it is handed
getStepsFromSession(type, includeRegulation, lastInput, ctx) ==
    IF type = "resilience_help" THEN
        getResilienceSteps(detectsOverwhelmSignal(lastInput)
                           \/ (Len(ctx) > 0 /\ ctx[Len(ctx)].userSelectedPause))
    ELSE IF type = "compare_contrast" THEN getCompareContrastSteps
    ELSE IF type = "essay" THEN getEssaySteps
    ELSE getGeneralSteps

\* lastInput and ctx are this.lastUserInput and this.conversationContext at
\* the time of the call
getSteps(type, includeRegulation, lastInput, ctx) ==
    IF type = "resilience_help" THEN
        LET hasExplicitOverwhelm == detectsOverwhelmSignal(lastInput)
            userSelectedPause == Len(ctx) > 0 /\ ctx[Len(ctx)].userSelectedPause
        IN  getResilienceSteps(includeRegulation
                               /\ (hasExplicitOverwhelm \/ userSelectedPause))
    ELSE IF type = "compare_contrast" THEN getCompareContrastSteps
    ELSE IF type = "essay" THEN getEssaySteps
    ELSE getGeneralSteps

generateBreakdown(assignment, type, lastInput, ctx) ==
    [type |-> type,
     steps |-> IF type = "resilience_help"
               THEN getSteps(type, detectsOverwhelmSignal(assignment), lastInput, ctx)
               ELSE getSteps(type, FALSE, lastInput, ctx)]

breakDownAssignment(assignment, lastInput, ctx) ==
    IF includesSome(assignment, generalHelpKeywords) THEN
        generateBreakdown(assignment, "resilience_help", lastInput, ctx)
    ELSE IF includesSome(assignment, {<<"compare">>, <<"contrast">>,
                                      <<"correlate">>, <<"theme">>}) THEN
        generateBreakdown(assignment, "compare_contrast", lastInput, ctx)
    ELSE IF includes(assignment, <<"write">>) /\ includes(assignment, <<"paper">>) THEN
        generateBreakdown(assignment, "essay", lastInput, ctx)
    ELSE IF includesSome(assignment, {<<"read">>, <<"book">>}) THEN
        generateBreakdown(assignment, "reading_response", lastInput, ctx)
    ELSE generateBreakdown(assignment, "general", lastInput, ctx)

\* the context object handed to generateFrankResponse
buildContext(input, lastInput, ctx) ==
    [breakdown |-> breakDownAssignment(input, lastInput, ctx)]

----------------------------------------------------------------------------
(* Responses *)

\* response.message is a string, or the step object of presentNextTinyStep
TextMessage(text) == [kind |-> "text", text |-> text, needsInput |-> FALSE]
StepMessage(step) == [kind |-> "step", text |-> step.title, needsInput |-> step.needsInput]

Response(mode, message, question, actions) ==
    [mode |-> mode, message |-> message, question |-> question, actions |-> actions]

\* assignment, lastInput, ctx are this.currentAssignment, this.lastUserInput
\* and this.conversationContext at the time of the call
presentNextTinyStep(context, assignment, lastInput, ctx) ==
    IF Len(context.breakdown.steps) > 0 THEN StepMessage(context.breakdown.steps[1])
    ELSE IF assignment # NoText
            /\ Len(breakDownAssignment(assignment, lastInput, ctx).steps) > 0 THEN
        StepMessage(breakDownAssignment(assignment, lastInput, ctx).steps[1])
    ELSE StepMessage(Step(<<"One", "Tiny", "Thing">>, TRUE))

\* action.toLowerCase().includes('pause') || ...includes('come back') || ...includes('later')
isPauseAction(action) ==
    includesSome(action, {<<"pause">>, <<"come", "back">>, <<"later">>})

isMissing(mode) == mode \in {Undefined, Null}

\* validateListening as it would be if the removal of the actions were the
\* else branch of the question check
validateListeningEitherOr(response, mode) ==
    IF mode = M("LISTENING")
    THEN IF response.question # NoText
         THEN [response EXCEPT !.mode = M("CLARIFYING")]
         ELSE [response EXCEPT !.actions = << >>]
    ELSE response

\* the five blocks of validateSingleMode, each on the response the block
\* before it left; mode is the mode the response had on entry
validateListening(response, mode) ==
    IF mode = M("LISTENING")
    THEN [response EXCEPT
             !.mode = IF response.question # NoText THEN M("CLARIFYING") ELSE @,
             !.actions = << >>]
    ELSE response

validateClarifying(response, mode) ==
    IF mode = M("CLARIFYING") THEN [response EXCEPT !.actions = << >>] ELSE response

validateOfferingDirection(response, mode) ==
    IF mode = M("OFFERING_DIRECTION") \/ mode = M("SHRINKING")
    THEN [response EXCEPT !.question = NoText] ELSE response

\* validateCalming as it would be if it put the pause button on every calming
\* response instead of filtering the actions the response has
validateCalmingAddsPause(response, mode) ==
    IF mode = M("CALMING") \/ mode = M("PAUSED")
    THEN [response EXCEPT !.question = NoText, !.actions = << <<"Pause">> >>]
    ELSE response

validateCalming(response, mode) ==
    IF mode = M("CALMING") \/ mode = M("PAUSED")
    THEN [response EXCEPT !.question = NoText, !.actions = SelectSeq(@, isPauseAction)]
    ELSE response

validateStepping(response, mode) ==
    IF mode = M("STEPPING") THEN [response EXCEPT !.question = NoText] ELSE response

\* the response after validateSingleMode has modified it in place
validateSingleMode(response) ==
    IF isMissing(response.mode) THEN response
    ELSE validateStepping(
             validateCalming(
                 validateOfferingDirection(
                     validateClarifying(
                         validateListening(response, response.mode),
                         response.mode),
                     response.mode),
                 response.mode),
             response.mode)

----------------------------------------------------------------------------
(* The answer path *)

mirrorAnswer(userInput, certaintyLevel) ==
    LET isLowCertainty == certaintyLevel = "low" IN
    IF includesSome(userInput, {<<"doesn't", "feel", "relevant">>,
                                <<"doesnt", "feel", "relevant">>, <<"irrelevant">>}) THEN
        IF isLowCertainty
        THEN <<"If", "it", "feels", "like", "it", "might", "not", "be", "relevant,", "that", "can", "make", "it", "harder", "to", "care.">>
        ELSE <<"If", "it", "feels", "irrelevant,", "that", "makes", "it", "hard", "to", "care", "or", "try.">>
    ELSE IF includesSome(userInput, {<<"boring">>, <<"pointless">>}) THEN
        <<"When", "something", "doesn't", "feel", "meaningful,", "it's", "hard", "to", "engage", "with", "it.">>
    ELSE IF includesSome(userInput, {<<"difficult">>, <<"hard">>}) THEN
        <<"This", "feels", "like", "a", "lot", "right", "now.">>
    ELSE IF includesSome(userInput, {<<"don't", "get">>, <<"dont", "get">>,
                                     <<"don't", "understand">>,
                                     <<"dont", "understand">>}) THEN
        <<"Not", "understanding", "why", "you", "need", "to", "do", "something", "makes", "it", "harder", "to", "care.">>
    ELSE IF includesSome(userInput, {<<"bad", "at">>, <<"not", "good", "at">>}) THEN
        <<"Feeling", "like", "you're", "not", "good", "at", "something", "makes", "it", "harder", "to", "start.">>
    ELSE <<"I", "hear", "you.">>

\* NoText where the source returns null
acknowledgeUnderstanding(userInput, signal) ==
    IF includesSome(userInput, {<<"irrelevant">>, <<"pointless">>, <<"boring">>}) THEN
        <<"We", "can", "go", "a", "few", "ways", "from", "here.">>
    ELSE IF includesSome(userInput, {<<"hard">>, <<"difficult">>, <<"stuck">>}) THEN
        <<"We", "can", "work", "with", "this.">>
    ELSE NoText

\* offerDirectionalOptions once hasExplicitOverwhelm is computed
directionalOptions(userInput, signal, hasExplicitOverwhelm) ==
    LET isExplanatory ==
            \/ signal.type = "explanatory"
            \/ includesSome(userInput, {<<"because">>, <<"since">>, <<"it's">>, <<"its">>,
                                        <<"feels", "like">>, <<"seems", "like">>})
        pauseIf(b) == IF b THEN << <<"Pause", "for", "now">> >> ELSE << >>
    IN
    IF isExplanatory THEN
        << <<"That", "makes", "sense">>, <<"Talk", "more", "about", "this">>,
           <<"Help", "me", "get", "through", "the", "minimum">> >> \o pauseIf(hasExplicitOverwhelm)
    ELSE IF includesSome(userInput, {<<"irrelevant">>, <<"doesn't", "matter">>,
                                     <<"doesnt", "matter">>, <<"pointless">>,
                                     <<"boring">>, <<"don't", "care">>,
                                     <<"dont", "care">>}) THEN
        << <<"That", "makes", "sense">>, <<"Talk", "more", "about", "this">>,
           <<"Help", "me", "get", "through", "the", "minimum">> >> \o pauseIf(hasExplicitOverwhelm)
    ELSE IF includesSome(userInput, {<<"hard">>, <<"difficult">>, <<"stuck">>}) THEN
        << <<"That", "makes", "sense">>, <<"Talk", "more", "about", "this">>, <<"Make", "this", "smaller">> >>
        \o pauseIf(hasExplicitOverwhelm \/ includes(userInput, <<"overwhelmed">>))
    ELSE IF includesSome(userInput, {<<"don't", "get">>, <<"dont", "get">>,
                                     <<"don't", "understand">>,
                                     <<"dont", "understand">>}) THEN
        << <<"That", "makes", "sense">>, <<"Talk", "more", "about", "this">>,
           <<"Break", "this", "down", "differently">> >> \o pauseIf(hasExplicitOverwhelm)
    ELSE
        << <<"That", "makes", "sense">>, <<"Talk", "more", "about", "this">>,
           <<"Help", "me", "get", "through", "the", "minimum">> >> \o pauseIf(hasExplicitOverwhelm)

offerDirectionalOptions(userInput, signal) ==
    directionalOptions(userInput, signal, detectsOverwhelmSignal(userInput))

readinessSignals ==
    { <<"i'm", "ready">>, <<"im", "ready">>, <<"ready">>,
      <<"let's", "start">>, <<"lets", "start">>, <<"let's", "go">>,
      <<"lets", "go">>, <<"show", "me">>, <<"help", "me", "start">>,
      <<"i", "want", "to", "start">>, <<"can", "we", "start">>,
      <<"how", "do", "i", "start">>, <<"what's", "the", "first", "step">>,
      <<"whats", "the", "first", "step">>, <<"first", "step">>,
      <<"begin">>, <<"start", "now">>, <<"i", "want", "to", "do", "this">>,
      <<"let's", "do", "this">>, <<"lets", "do", "this">>,
      <<"i'm", "ready", "to", "start">>, <<"im", "ready", "to", "start">> }

detectsExplicitReadiness(userInput) ==
    userInput # NoText /\ includesSome(userInput, readinessSignals)

actionDirections ==
    { <<"help", "me", "get", "through">>, <<"help", "me", "start">>,
      <<"show", "me">>, <<"let's", "start">>, <<"lets", "start">>,
      <<"make", "this", "smaller">>, <<"break", "this", "down">>,
      <<"start", "this">>, <<"begin">>, <<"get", "started">> }

directionImpliesAction(directionText) ==
    directionText # NoText /\ includesSome(directionText, actionDirections)

determineNextModeAfterAnswer(userInput, signal) ==
    IF \/ signal.type = "ready_for_action"
       \/ includesSome(userInput, {<<"help">>, <<"show", "me">>, <<"how", "do">>,
                                   <<"start">>})
    THEN M("STEPPING")
    ELSE M("OFFERING_DIRECTION")

\* mirror + (understanding ? " " + understanding : "")
joinSentences(mirror, understanding) ==
    IF understanding # NoText THEN mirror \o understanding ELSE mirror

\* (nextMode === MODES.SHRINKING || nextMode === 'shrinking')
\*     ? MODES.OFFERING_DIRECTION : nextMode
visibleModeOf(nextMode) ==
    IF nextMode = M("SHRINKING") \/ nextMode = "shrinking"
    THEN M("OFFERING_DIRECTION") ELSE nextMode

\* the response handleQuestionAnswer returns (it validates it itself)
handleQuestionAnswer(userInput, signal, certaintyLevel, context) ==
    validateSingleMode(
        Response(visibleModeOf(determineNextModeAfterAnswer(userInput, signal)),
                 TextMessage(joinSentences(mirrorAnswer(userInput, certaintyLevel),
                                           acknowledgeUnderstanding(userInput, signal))),
                 NoText,
                 offerDirectionalOptions(userInput, signal)))

----------------------------------------------------------------------------
(* generateFrankResponse *)

\* an entry of this.conversationContext; the fields the source adds later
\* start out absent (FALSE, NoText)
ContextEntry(input, signal, certaintyLevel) ==
    [input |-> input, signal |-> signal, certaintyLevel |-> certaintyLevel,
     hadQuestion |-> FALSE, lastQuestion |-> NoText,
     selectedDirection |-> NoText, userSelectedPause |-> FALSE,
     internalState |-> "none"]

\* lastContext.hadQuestion = true; lastContext.lastQuestion = question
markQuestion(ctx, question) ==
    IF Len(ctx) > 0
    THEN [ctx EXCEPT ![Len(ctx)].hadQuestion = TRUE, ![Len(ctx)].lastQuestion = question]
    ELSE ctx

\* lastContext._internalState = 'understanding'
markUnderstanding(ctx) ==
    IF Len(ctx) > 0 THEN [ctx EXCEPT ![Len(ctx)].internalState = "understanding"]
    ELSE ctx

\* what one call leaves behind: the response it returns, the conversation
\* context after it, and whether handleQuestionAnswer composed the response
Generated(response, ctx, answerPath) ==
    [response |-> response, context |-> ctx, answerPath |-> answerPath]

\* clarify as it would be if the composer also attached the pause button to
\* its question
clarifyWithPause(ctx, message, question) ==
    Generated(Response(M("CLARIFYING"), TextMessage(message), question,
                       << <<"Pause">> >>),
              markQuestion(ctx, question), FALSE)

\* a CLARIFYING response; the question is recorded on the last context entry
clarify(ctx, message, question) ==
    Generated(Response(M("CLARIFYING"), TextMessage(message), question, << >>),
              markQuestion(ctx, question), FALSE)

\* the 'ready_for_action' case
readyForAction(userInput, context, assignment, ctx) ==
    Generated(Response(M("STEPPING"),
                       presentNextTinyStep(context, assignment, userInput, ctx),
                       NoText,
                       IF \/ detectsExplicitReadiness(userInput)
                          \/ directionImpliesAction(ctx[Len(ctx)].selectedDirection)
                          \/ (Len(ctx) = 1 /\ isDirectAssignmentRequest(userInput))
                       THEN << <<"Start", "this", "step">>, <<"Make", "it", "smaller">> >>
                       ELSE << >>),
              ctx, FALSE)

\* generateFrankResponse after the push: ctx is this.conversationContext with
\* the new entry, newTopic is introducesNewTopic(userInput, context), answer is
\* what `return this.handleQuestionAnswer(...)` leaves behind
respond(userInput, context, assignment, signal, ctx, newTopic, answer) ==
    IF /\ conversationMode = M("CLARIFYING")
       /\ ~newTopic
       /\ Len(ctx) > 0 /\ ctx[Len(ctx)].hadQuestion THEN answer
    ELSE IF isAnsweringPreviousQuestion(userInput, ctx) /\ ~newTopic THEN answer
    ELSE CASE signal.type = "emotional" ->
            IF conversationMode = M("CLARIFYING") THEN answer
            ELSE clarify(ctx, mirrorEmotion(userInput, signal.certaintyLevel),
                         askOneClarifyingQuestion(userInput, signal.certaintyLevel))
      [] signal.type = "explanatory" ->
            IF conversationMode = M("CLARIFYING") THEN answer
            ELSE clarify(ctx, reflectMeaning(userInput, signal.certaintyLevel),
                         narrowChoices(userInput, signal.certaintyLevel))
      [] signal.type = "overwhelmed" ->
            IF signal.hasLossOfFunction
            THEN Generated(Response(M("CALMING"), TextMessage(gentleReassurance), NoText,
                                    << <<"Pause">>, <<"Come", "back", "later">> >>),
                           ctx, FALSE)
            ELSE clarify(ctx, handleIntensityAsInformation(userInput),
                         askFunctionCheckQuestion)
      [] signal.type = "intense_emotion" ->
            clarify(ctx, handleIntensityAsInformation(userInput), askFunctionCheckQuestion)
      [] signal.type = "request_to_shrink" ->
            Generated(Response(M("OFFERING_DIRECTION"),
                               TextMessage(permissionBasedTransition), NoText,
                               << <<"Make", "this", "smaller">> >>),
                      ctx, FALSE)
      [] signal.type = "ready_for_action" ->
            readyForAction(userInput, context, assignment, ctx)
      [] OTHER ->
            Generated(Response(M("LISTENING"),
                               TextMessage(mirrorEmotion(userInput, "medium")),
                               askOneClarifyingQuestion(userInput, "medium"), << >>),
                      ctx, FALSE)

\* generateFrankResponse once the signal is computed: the push, then the rest
generateForSignal(userInput, context, assignment, history, signal) ==
    respond(userInput, context, assignment, signal,
            Append(history, ContextEntry(userInput, signal.type, signal.certaintyLevel)),
            introducesNewTopic(userInput,
                Append(history, ContextEntry(userInput, signal.type, signal.certaintyLevel))),
            Generated(handleQuestionAnswer(userInput, signal, signal.certaintyLevel, context),
                      markUnderstanding(
                          Append(history,
                                 ContextEntry(userInput, signal.type, signal.certaintyLevel))),
                      TRUE))

\* assignment and history are this.currentAssignment and
\* this.conversationContext at the time of the call
generateFrankResponse(userInput, context, assignment, history) ==
    generateForSignal(userInput, context, assignment, history, classifyInput(userInput))

\* generateFrankResponse(userInput, this.buildContext(input)): the context is
\* built first, from lastInput and history as they are before the call; what
\* the call leaves behind is kept together with the breakdown it was handed
\* and the input that breakdown was built from
generateWithContext(userInput, input, lastInput, assignment, history) ==
    [response |->
         generateFrankResponse(userInput, buildContext(input, lastInput, history),
                               assignment, history).response,
     context |->
         generateFrankResponse(userInput, buildContext(input, lastInput, history),
                               assignment, history).context,
     answerPath |->
         generateFrankResponse(userInput, buildContext(input, lastInput, history),
                               assignment, history).answerPath,
     plan |-> << [input |-> input,
                  breakdown |-> buildContext(input, lastInput, history).breakdown] >>]

----------------------------------------------------------------------------
(* The page and the handlers *)

filterEnabled == config # "none"

\* TRUE when the input is blocked (showInappropriateContentResponse then runs)
checkInappropriateContent(input) ==
    filterEnabled /\ includesSome(input, contentPolicyKeywords)

\* the value of this.conversationMode after setConversationMode(mode)
setConversationMode(mode) ==
    IF mode \in validModes THEN mode ELSE conversationMode

\* s.replace(/\s+/g, '-') on characters
hyphenate(s) == [i \in 1..Len(s) |-> IF s[i] = " " THEN "-" ELSE s[i]]

\* the data-action of the button rendered for an action label, as characters
mapActionToHandler(actionText) ==
    CASE actionText = <<"Pause">> -> chars(<<"pause">>)
      [] actionText = <<"Come", "back", "later">> -> chars(<<"pause">>)
      [] actionText = <<"Make", "this", "smaller">> -> chars(<<"make-smaller">>)
      [] actionText = <<"Start", "this", "step">> -> chars(<<"start-step">>)
      [] actionText = <<"Make", "it", "smaller">> -> chars(<<"make-smaller">>)
      [] OTHER -> hyphenate(toLowerCase(chars(actionText)))

\* no callback is pending
NoTimers == [name \in {"askWantToKeepGoingAfterStep", "pauseAndSave"} |-> 0]

\* the page before anything is shown
NoPage ==
    [modalOpen |-> FALSE, shown |-> << >>, filtered |-> FALSE,
     questionInput |-> FALSE, mainInputHidden |-> FALSE, stepCurrent |-> FALSE,
     nudge |-> 0, originalInput |-> NoText]

\* the page after displayCanonicalResponse(response, originalInput)
displayCanonicalResponse(response, originalInput) ==
    LET conversing == response.mode = M("LISTENING") \/ response.mode = M("CLARIFYING") IN
    [modalOpen |-> TRUE,
     shown |-> << response >>,
     filtered |-> FALSE,
     questionInput |-> conversing /\ response.question # NoText,
     mainInputHidden |-> ui.mainInputHidden \/ conversing,
     stepCurrent |-> response.message.kind = "step",
     nudge |-> 0,
     originalInput |-> originalInput]

\* the page after showInappropriateContentResponse
showInappropriateContentResponse ==
    [ui EXCEPT !.modalOpen = TRUE, !.shown = << >>, !.filtered = TRUE,
               !.questionInput = FALSE, !.stepCurrent = FALSE, !.nudge = 0]

\* the page after closeModal
closeModalPage == [ui EXCEPT !.modalOpen = FALSE, !.mainInputHidden = FALSE]

\* what a handler did: the response it obtained from generateFrankResponse
\* (at most one), whether validateSingleMode was applied to it, how often the
\* handler assigned this.conversationMode, what it put on the page
Turn(op, input) ==
    [op |-> op, input |-> input, priorMode |-> conversationMode,
     signal |-> "none", certaintyLevel |-> "none", lossOfFunction |-> FALSE,
     generated |-> << >>, answerPath |-> FALSE, accepted |-> FALSE,
     validated |-> FALSE, modeSets |-> 0, displayed |-> << >>,
     blocked |-> FALSE, alert |-> "none", plan |-> << >>]

\* the record of a handler that called generateFrankResponse(input, ...): gen
\* is what the call left behind; the signal is the one classifyInput computed
GeneratedTurn(op, input, gen) ==
    [Turn(op, input) EXCEPT
        !.signal = gen.context[Len(gen.context)].signal,
        !.certaintyLevel = gen.context[Len(gen.context)].certaintyLevel,
        !.lossOfFunction = classifyInput(input).hasLossOfFunction,
        !.generated = << gen.response >>,
        !.answerPath = gen.answerPath,
        !.plan = gen.plan]

\* this.conversationState = { originalInput, answers: [], waitingForAnswer: false };
\* hasAnswers tells this object from the one loadAssignmentWithProgress builds,
\* which has no answers field
NewConversationState ==
    [originalInput |-> currentAssignment, answers |-> << >>, waitingForAnswer |-> FALSE,
     hasAnswers |-> TRUE]

\* an element of conversationState.answers: handleAnswerWithCanonicalFlow pushes
\* the answer itself, handleStepCompletion pushes { step, answer }
Answer(step, answer) == [step |-> step, answer |-> answer]

\* this.conversationState after this.conversationState.answers.push(answer)
pushAnswer(answer) ==
    IF conversationState = << >>
    THEN << [NewConversationState EXCEPT !.answers = Append(@, Answer(NoText, answer))] >>
    ELSE << [conversationState[1] EXCEPT !.answers = Append(@, Answer(NoText, answer))] >>

\* whether this.conversationState.answers.push would throw a TypeError
answersMissing == conversationState # << >> /\ ~conversationState[1].hasAnswers

\* handleAnswerWithCanonicalFlow from the call of generateFrankResponse on;
\* gen is what that call left behind
AnswerGenerated(op, answer, gen) ==
    /\ conversationState' = pushAnswer(answer)
    /\ lastUserInput' = answer
    /\ conversationContext' = gen.context
    /\ conversationMode' = setConversationMode(gen.response.mode)
    /\ pendingDisplay' = Append(pendingDisplay,
                                [response |-> gen.response, answer |-> answer,
                                 validated |-> gen.answerPath])
    /\ ui' = [ui EXCEPT !.questionInput = FALSE]
    /\ lastTurn' = [GeneratedTurn(op, answer, gen) EXCEPT
                       !.validated = gen.answerPath,
                       !.modeSets = IF gen.response.mode \in validModes THEN 1 ELSE 0]
    /\ UNCHANGED <<currentAssignment, savedAssignments, timers>>

\* handleAnswerWithCanonicalFlow as it would be without the content check of
\* its first lines
AnswerFlowUnchecked(op, answer) ==
    AnswerGenerated(op, answer,
        generateWithContext(
            answer,
            IF currentAssignment # NoText THEN currentAssignment ELSE answer,
            lastUserInput, currentAssignment, conversationContext))

\* handleAnswerWithCanonicalFlow(answer), for a non-empty answer
AnswerFlow(op, answer) ==
    IF checkInappropriateContent(answer) THEN
        /\ ui' = showInappropriateContentResponse
        /\ lastTurn' = [Turn(op, answer) EXCEPT !.blocked = TRUE]
        /\ UNCHANGED <<conversationMode, conversationContext, conversationState,
                       currentAssignment, lastUserInput, savedAssignments,
                       pendingDisplay, timers>>
    ELSE IF answersMissing THEN
        \* this.conversationState.answers.push(answer) throws; nothing catches it
        /\ lastTurn' = [Turn(op, answer) EXCEPT !.alert = "TypeError"]
        /\ UNCHANGED <<conversationMode, conversationContext, conversationState,
                       currentAssignment, lastUserInput, savedAssignments, ui,
                       pendingDisplay, timers>>
    ELSE
        AnswerGenerated(op, answer,
            generateWithContext(
                answer,
                IF currentAssignment # NoText THEN currentAssignment ELSE answer,
                lastUserInput, currentAssignment, conversationContext))

\* processAssignment from the validation of the response on; generated is the
\* response generateFrankResponse returned, response is it after validateSingleMode
SubmissionValidated(op, input, gen, response) ==
    /\ conversationMode' = setConversationMode(response.mode)
    /\ conversationContext' =
           IF response.question # NoText
           THEN markQuestion(gen.context, response.question)
           ELSE gen.context
    /\ ui' = displayCanonicalResponse(response, input)
    /\ lastTurn' = [GeneratedTurn(op, input, gen) EXCEPT
                       !.validated = TRUE,
                       !.modeSets = IF response.mode \in validModes THEN 1 ELSE 0,
                       !.displayed = << response >>]

\* processAssignment from the call of generateFrankResponse on, run by the
\* handler op
SubmissionGenerated(op, input, gen) ==
    /\ currentAssignment' = input
    /\ lastUserInput' = input
    /\ IF isMissing(gen.response.mode) THEN
           \* throw new Error('Invalid response structure - missing mode'),
           \* caught by processAssignment, which shows it in an alert
           /\ conversationContext' = gen.context
           /\ lastTurn' = [GeneratedTurn(op, input, gen) EXCEPT !.alert = "error"]
           /\ UNCHANGED <<conversationMode, ui>>
       ELSE SubmissionValidated(op, input, gen, validateSingleMode(gen.response))

\* the same two parts when the submit button or the Enter key runs them
FirstInputValidated(input, gen, response) ==
    SubmissionValidated("processAssignment", input, gen, response)

FirstInputGenerated(input, gen) ==
    /\ SubmissionGenerated("processAssignment", input, gen)
    /\ UNCHANGED <<conversationState, savedAssignments, pendingDisplay, timers>>

\* processAssignment() outside a question-answer flow
FirstInput(input) ==
    IF input = NoText THEN
        /\ lastTurn' = [Turn("processAssignment", input) EXCEPT !.alert = "empty"]
        /\ UNCHANGED <<conversationMode, conversationContext, conversationState,
                       currentAssignment, lastUserInput, savedAssignments, ui,
                       pendingDisplay, timers>>
    ELSE IF checkInappropriateContent(input) THEN
        /\ ui' = showInappropriateContentResponse
        /\ lastTurn' = [Turn("processAssignment", input) EXCEPT !.blocked = TRUE]
        /\ UNCHANGED <<conversationMode, conversationContext, conversationState,
                       currentAssignment, lastUserInput, savedAssignments,
                       pendingDisplay, timers>>
    ELSE
        FirstInputGenerated(input,
            generateWithContext(input, input, lastUserInput, input,
                                conversationContext))

\* the processAssignment handler of the submit button and the Enter key
ProcessAssignment(input) ==
    /\ ~ui.mainInputHidden
    /\ Len(conversationContext) < MaxTurns
    /\ IF conversationState # << >> /\ conversationState[1].waitingForAnswer
       THEN input # NoText /\ AnswerFlow("processAssignment", input)
       ELSE FirstInput(input)

\* the click handler of the Respond button under a displayed question
HandleAnswerWithCanonicalFlow(answer) ==
    /\ ui.modalOpen /\ ui.questionInput
    /\ \/ Len(conversationContext) < MaxTurns
       \/ checkInappropriateContent(answer)
       \/ answersMissing
    /\ AnswerFlow("handleAnswerWithCanonicalFlow", answer)

\* the page after the scheduled display of a pending response
displayPending(pending) ==
    displayCanonicalResponse(pending.response,
                             IF currentAssignment # NoText THEN currentAssignment
                             ELSE pending.answer)

\* the callback of setTimeout(..., 500) in handleAnswerWithCanonicalFlow
DisplayTimer ==
    /\ pendingDisplay # << >>
    /\ ui' = displayPending(Head(pendingDisplay))
    /\ lastTurn' = [Turn("displayTimer", Head(pendingDisplay).answer) EXCEPT
                       !.validated = Head(pendingDisplay).validated,
                       !.displayed = << Head(pendingDisplay).response >>]
    /\ pendingDisplay' = Tail(pendingDisplay)
    /\ UNCHANGED <<conversationMode, conversationContext, conversationState,
                   currentAssignment, lastUserInput, savedAssignments, timers>>

\* the record pauseAndSave stores; adviceAnswers and currentAdviceStep are
\* read from this.conversationState, which never has these fields here
SavedAssignment ==
    [text |-> currentAssignment,
     adviceAnswers |-> IF conversationState # << >> /\ conversationState[1].hasAnswers
                       THEN "undefined" ELSE "[]",
     currentAdviceStep |-> IF conversationState # << >> /\ conversationState[1].hasAnswers
                           THEN "undefined" ELSE "0"]

\* this.savedAssignments after pauseAndSave: the first record with the same
\* text is replaced, otherwise the record is appended
saveAssignment(saved) ==
    IF \E i \in 1..Len(saved) : saved[i].text = currentAssignment
    THEN [i \in 1..Len(saved) |->
             IF /\ saved[i].text = currentAssignment
                /\ \A k \in 1..(i - 1) : saved[k].text # currentAssignment
             THEN SavedAssignment ELSE saved[i]]
    ELSE Append(saved, SavedAssignment)

\* the data-action values of handleCanonicalAction's cases
pauseAction == chars(<<"pause">>)
makeSmallerAction == chars(<<"make-smaller">>)
startStepAction == chars(<<"start-step">>)
directionActions ==
    { chars(<<"that-makes-sense">>), chars(<<"talk-more-about-this">>),
      chars(<<"help-me-get-through-the-minimum">>) }

\* the text of the last button whose data-action is the action
selectedDirectionIn(actions, action) ==
    IF \E i \in 1..Len(actions) : mapActionToHandler(actions[i]) = action
    THEN actions[CHOOSE i \in 1..Len(actions) :
                    /\ mapActionToHandler(actions[i]) = action
                    /\ \A j \in (i + 1)..Len(actions) :
                          mapActionToHandler(actions[j]) # action]
    ELSE NoText

\* this.conversationContext after lastContext.selectedDirection = selectedDirection
storeDirection(selectedDirection) ==
    IF selectedDirection # NoText /\ Len(conversationContext) > 0
    THEN [conversationContext EXCEPT
             ![Len(conversationContext)].selectedDirection = selectedDirection]
    ELSE conversationContext

\* the cases 'make-smaller' and 'that-makes-sense', ... from the call of
\* generateFrankResponse on
ActionGenerated(userInput, originalInput, gen) ==
    /\ lastUserInput' = userInput
    /\ conversationContext' = gen.context
    /\ conversationMode' = setConversationMode(gen.response.mode)
    /\ ui' = displayCanonicalResponse(gen.response, originalInput)
    /\ lastTurn' = [GeneratedTurn("handleCanonicalAction", userInput, gen) EXCEPT
                       !.validated = gen.answerPath,
                       !.modeSets = IF gen.response.mode \in validModes THEN 1 ELSE 0,
                       !.displayed = << gen.response >>]
    /\ UNCHANGED <<conversationState, currentAssignment, savedAssignments,
                   pendingDisplay, timers>>

\* handleCanonicalAction after the selected direction is stored; ctx is
\* this.conversationContext at that point
ActionCase(action, originalInput, selectedDirection, ctx) ==
    IF action = pauseAction THEN
        /\ conversationContext' =
               IF Len(ctx) > 0 THEN [ctx EXCEPT ![Len(ctx)].userSelectedPause = TRUE]
               ELSE ctx
        /\ IF currentAssignment = NoText THEN
               \* pauseAndSave returns at once
               UNCHANGED <<savedAssignments, ui, conversationState,
                           currentAssignment, lastUserInput>>
           ELSE
               /\ savedAssignments' = saveAssignment(savedAssignments)
               /\ ui' = closeModalPage
               /\ conversationState' = << >>
               /\ currentAssignment' = NoText
               /\ lastUserInput' = NoText
        /\ lastTurn' = Turn("handleCanonicalAction", selectedDirection)
        /\ UNCHANGED <<conversationMode, pendingDisplay, timers>>
    ELSE IF action = makeSmallerAction THEN
        ActionGenerated(makeItSmallerInput, originalInput,
            generateWithContext(makeItSmallerInput, originalInput, lastUserInput,
                                currentAssignment, ctx))
    ELSE IF action = startStepAction THEN
        \* advanceToNextStepInFlow: the current step card is marked complete
        /\ conversationContext' = ctx
        /\ ui' = [ui EXCEPT !.stepCurrent = FALSE]
        /\ lastTurn' = Turn("handleCanonicalAction", selectedDirection)
        /\ UNCHANGED <<conversationMode, conversationState, currentAssignment,
                       lastUserInput, savedAssignments, pendingDisplay, timers>>
    ELSE IF action \in directionActions THEN
        ActionGenerated(selectedDirection, originalInput,
            generateWithContext(selectedDirection, originalInput, lastUserInput,
                                currentAssignment, ctx))
    ELSE
        \* console.log('Unknown action:', action)
        /\ conversationContext' = ctx
        /\ lastTurn' = [Turn("handleCanonicalAction", selectedDirection) EXCEPT
                           !.alert = "unknown action"]
        /\ UNCHANGED <<conversationMode, conversationState, currentAssignment,
                       lastUserInput, savedAssignments, ui, pendingDisplay, timers>>

\* handleCanonicalAction once the selected direction is found
ActionSelected(action, selectedDirection) ==
    ActionCase(action, ui.originalInput, selectedDirection,
               storeDirection(selectedDirection))

\* the click handler of the action button at position i of the displayed response
HandleCanonicalAction(i) ==
    /\ ui.modalOpen /\ ui.shown # << >>
    /\ i \in 1..Len(ui.shown[1].actions)
    /\ \/ mapActionToHandler(ui.shown[1].actions[i])
             \notin ({makeSmallerAction} \cup directionActions)
       \/ Len(conversationContext) < MaxTurns
    /\ ActionSelected(mapActionToHandler(ui.shown[1].actions[i]),
                      selectedDirectionIn(ui.shown[1].actions,
                                          mapActionToHandler(ui.shown[1].actions[i])))

\* the close button of the modal and a click outside it
CloseModal ==
    /\ ui.modalOpen
    /\ ui' = closeModalPage
    /\ conversationState' = << >>
    /\ currentAssignment' = NoText
    /\ lastUserInput' = NoText
    /\ lastTurn' = Turn("closeModal", NoText)
    /\ UNCHANGED <<conversationMode, conversationContext, savedAssignments,
                   pendingDisplay, timers>>

----------------------------------------------------------------------------
(* Steps, the pause and the return to a saved task *)

\* the number of answers one conversation state collects from completed steps
MaxAnswers == 2

\* what the student types into the input of a step
StepAnswers == { <<"it", "is", "too", "hard">> }

\* the names under which setTimeout callbacks are pending in timers
keepGoingTimer == "askWantToKeepGoingAfterStep"
pauseTimer == "pauseAndSave"

\* timers after one more callback is scheduled under the name, and after one
\* of them has run
scheduled(name) == [timers EXCEPT ![name] = @ + 1]
fired(name) == [timers EXCEPT ![name] = @ - 1]

\* this.conversationState after handleStepCompletion's push of { step, answer }
pushStepAnswer(step, answer) ==
    IF conversationState = << >>
    THEN << [NewConversationState EXCEPT !.answers = Append(@, Answer(step, answer))] >>
    ELSE << [conversationState[1] EXCEPT !.answers = Append(@, Answer(step, answer))] >>

\* the number continueToNextStep reads: this.conversationState?.answers?.length || 0
completedSteps ==
    IF conversationState = << >> THEN 0 ELSE Len(conversationState[1].answers)

\* the click handler of the step's button, which is rendered with the step's
\* input: handleStepCompletion(answer, response.message) for a typed answer
HandleStepCompletion(answer) ==
    /\ ui.modalOpen /\ ui.shown # << >>
    /\ ui.shown[1].message.kind = "step" /\ ui.shown[1].message.needsInput
    /\ IF answersMissing THEN
           \* this.conversationState.answers.push throws; nothing catches it
           /\ lastTurn' = [Turn("handleStepCompletion", answer) EXCEPT
                              !.alert = "TypeError"]
           /\ UNCHANGED <<conversationState, ui, timers>>
       ELSE
           /\ completedSteps < MaxAnswers /\ timers[keepGoingTimer] < MaxAnswers
           /\ conversationState' = pushStepAnswer(ui.shown[1].message.text, answer)
           /\ ui' = [ui EXCEPT !.stepCurrent = FALSE]
           /\ timers' = scheduled(keepGoingTimer)
           /\ lastTurn' = Turn("handleStepCompletion", answer)
    /\ UNCHANGED <<conversationMode, conversationContext, currentAssignment,
                   lastUserInput, savedAssignments, pendingDisplay>>

\* the callback of setTimeout(..., 2000) in handleStepCompletion
AskWantToKeepGoingAfterStep ==
    /\ timers[keepGoingTimer] > 0
    /\ timers' = fired(keepGoingTimer)
    /\ ui' = [ui EXCEPT !.nudge = @ + 1]
    /\ lastTurn' = Turn("askWantToKeepGoingAfterStep", NoText)
    /\ UNCHANGED <<conversationMode, conversationContext, conversationState,
                   currentAssignment, lastUserInput, savedAssignments,
                   pendingDisplay>>

\* the response continueToNextStep builds for the step at position index + 1
nextStepResponse(steps, index) ==
    Response(M("STEPPING"), StepMessage(steps[index + 1]), NoText,
             << <<"Start", "this", "step">>, <<"Make", "it", "smaller">> >>)

\* the Yes button of the nudge: continueToNextStep()
ContinueToNextStep ==
    /\ ui.modalOpen /\ ui.nudge > 0
    /\ LET steps == breakDownAssignment(currentAssignment, lastUserInput,
                                        conversationContext).steps
       IN  IF currentAssignment # NoText /\ Len(steps) > completedSteps THEN
               /\ conversationMode' =
                      setConversationMode(nextStepResponse(steps, completedSteps).mode)
               /\ ui' = displayCanonicalResponse(
                            nextStepResponse(steps, completedSteps), currentAssignment)
               /\ lastTurn' = [Turn("continueToNextStep", currentAssignment) EXCEPT
                                  !.modeSets = 1,
                                  !.displayed =
                                      << nextStepResponse(steps, completedSteps) >>]
           ELSE
               /\ ui' = [ui EXCEPT !.nudge = @ - 1]
               /\ lastTurn' = Turn("continueToNextStep", currentAssignment)
               /\ UNCHANGED conversationMode
    /\ UNCHANGED <<conversationContext, conversationState, currentAssignment,
                   lastUserInput, savedAssignments, pendingDisplay, timers>>

\* the Not right now button of the nudge
NotRightNow ==
    /\ ui.modalOpen /\ ui.nudge > 0
    /\ ui' = [ui EXCEPT !.nudge = @ - 1]
    /\ timers' = scheduled(pauseTimer)
    /\ lastTurn' = Turn("notRightNow", NoText)
    /\ UNCHANGED <<conversationMode, conversationContext, conversationState,
                   currentAssignment, lastUserInput, savedAssignments,
                   pendingDisplay>>

\* pauseAndSave(): nothing without a current assignment; otherwise the record
\* is stored, the modal closed and the task forgotten
PauseAndSave ==
    IF currentAssignment = NoText THEN
        UNCHANGED <<savedAssignments, ui, conversationState, currentAssignment,
                    lastUserInput>>
    ELSE
        /\ savedAssignments' = saveAssignment(savedAssignments)
        /\ ui' = closeModalPage
        /\ conversationState' = << >>
        /\ currentAssignment' = NoText
        /\ lastUserInput' = NoText

\* the click handler of the pause button
PauseButton ==
    /\ PauseAndSave
    /\ lastTurn' = Turn("pauseAndSave", currentAssignment)
    /\ UNCHANGED <<conversationMode, conversationContext, pendingDisplay, timers>>

\* the callback of setTimeout(..., 2000) of the Not right now button:
\* pauseAndSave(); closeModal()
DeferredPause ==
    /\ timers[pauseTimer] > 0
    /\ timers' = fired(pauseTimer)
    /\ savedAssignments' =
           IF currentAssignment = NoText THEN savedAssignments
           ELSE saveAssignment(savedAssignments)
    /\ ui' = closeModalPage
    /\ conversationState' = << >>
    /\ currentAssignment' = NoText
    /\ lastUserInput' = NoText
    /\ lastTurn' = Turn("deferredPause", currentAssignment)
    /\ UNCHANGED <<conversationMode, conversationContext, pendingDisplay>>

\* processAssignment() as startFresh and loadAssignmentWithProgress call it:
\* the input field holds the saved text, state is this.conversationState as
\* the caller left it
Resubmit(op, text, state) ==
    /\ conversationState' = state
    /\ IF checkInappropriateContent(text) THEN
           /\ currentAssignment' = text
           /\ ui' = showInappropriateContentResponse
           /\ lastTurn' = [Turn(op, text) EXCEPT !.blocked = TRUE]
           /\ UNCHANGED <<conversationMode, conversationContext, lastUserInput>>
       ELSE
           SubmissionGenerated(op, text,
               generateWithContext(text, text, lastUserInput, text,
                                   conversationContext))
    /\ UNCHANGED <<pendingDisplay, timers>>

\* this.conversationState after loadAssignmentWithProgress(assignment): the
\* object { originalInput, adviceAnswers, currentAdviceStep, adviceSteps } when
\* the record has adviceAnswers, the state as it is otherwise
restoredState(assignment) ==
    IF assignment.adviceAnswers = "[]"
    THEN << [originalInput |-> assignment.text, answers |-> << >>,
             waitingForAnswer |-> FALSE, hasAnswers |-> FALSE] >>
    ELSE conversationState

\* the Continue where I left off button of the welcome-back message for the
\* saved record at position i
LoadAssignmentWithProgress(i) ==
    /\ i \in 1..Len(savedAssignments)
    /\ Len(conversationContext) < MaxTurns
    /\ Resubmit("loadAssignmentWithProgress", savedAssignments[i].text,
                restoredState(savedAssignments[i]))
    /\ UNCHANGED savedAssignments

\* the Start fresh button of the welcome-back message for the saved record at
\* position i
StartFresh(i) ==
    /\ i \in 1..Len(savedAssignments)
    /\ Len(conversationContext) < MaxTurns
    /\ Resubmit("startFresh", savedAssignments[i].text, << >>)
    /\ savedAssignments' =
           [k \in 1..(Len(savedAssignments) - 1) |->
               IF k < i THEN savedAssignments[k] ELSE savedAssignments[k + 1]]

----------------------------------------------------------------------------
(* The specification *)

\* the state after the constructor; MODES is bound to the configuration's
\* conversationModes only if a configuration defining them was loaded first
Init ==
    /\ config \in Configs
    /\ modesFromConfig \in BOOLEAN
    /\ modesFromConfig => config # "none"
    /\ conversationMode = Null
    /\ conversationContext = << >>
    /\ conversationState = << >>
    /\ currentAssignment = NoText
    /\ lastUserInput = NoText
    /\ savedAssignments = << >>
    /\ ui = NoPage
    /\ pendingDisplay = << >>
    /\ timers = NoTimers
    /\ lastTurn = Turn("init", NoText)
    /\ contained = Profile
    /\ begins = Prefixes
    /\ ends = Suffixes
    /\ lengths = Lengths

Next ==
    \/ \E input \in Typed \cup {NoText} :
          ProcessAssignment(input) /\ UNCHANGED <<config, modesFromConfig, contained, begins, ends, lengths>>
    \/ \E answer \in Typed :
          HandleAnswerWithCanonicalFlow(answer) /\ UNCHANGED <<config, modesFromConfig, contained, begins, ends, lengths>>
    \/ DisplayTimer /\ UNCHANGED <<config, modesFromConfig, contained, begins, ends, lengths>>
    \/ \E i \in 1..MaxActions :
          HandleCanonicalAction(i) /\ UNCHANGED <<config, modesFromConfig, contained, begins, ends, lengths>>
    \/ CloseModal /\ UNCHANGED <<config, modesFromConfig, contained, begins, ends, lengths>>
    \/ \E answer \in StepAnswers :
          HandleStepCompletion(answer) /\ UNCHANGED <<config, modesFromConfig, contained, begins, ends, lengths>>
    \/ AskWantToKeepGoingAfterStep /\ UNCHANGED <<config, modesFromConfig, contained, begins, ends, lengths>>
    \/ ContinueToNextStep /\ UNCHANGED <<config, modesFromConfig, contained, begins, ends, lengths>>
    \/ NotRightNow /\ UNCHANGED <<config, modesFromConfig, contained, begins, ends, lengths>>
    \/ PauseButton /\ UNCHANGED <<config, modesFromConfig, contained, begins, ends, lengths>>
    \/ DeferredPause /\ UNCHANGED <<config, modesFromConfig, contained, begins, ends, lengths>>
    \/ \E i \in 1..MaxTurns :
          LoadAssignmentWithProgress(i) /\ UNCHANGED <<config, modesFromConfig, contained, begins, ends, lengths>>
    \/ \E i \in 1..MaxTurns :
          StartFresh(i) /\ UNCHANGED <<config, modesFromConfig, contained, begins, ends, lengths>>

Spec == Init /\ [][Next]_vars

----------------------------------------------------------------------------
(* validateSingleMode on its own: every response a composer could return *)

\* the values response.mode is given: the values of the MODES objects, and a
\* missing mode
ResponseModes ==
    FiveModes \cup {"shrinking", "paused", "understanding", Undefined}

\* the action labels of the responses handed to validateSingleMode
ResponseLabels ==
    { <<"Pause">>, <<"Come", "back", "later">>, <<"Make", "this", "smaller">> }

ActionLists(labels, n) == UNION { [1..k -> labels] : k \in 0..n }

Responses ==
    { Response(mode, TextMessage(<<"I", "hear", "you.">>), question, actions) :
          mode \in ResponseModes,
          question \in {NoText, askFunctionCheckQuestion},
          actions \in ActionLists(ResponseLabels, MaxActions) }

\* a response is drawn; lastTurn.generated holds it
InitValidate ==
    /\ config \in Configs
    /\ modesFromConfig \in BOOLEAN
    /\ modesFromConfig => config # "none"
    /\ conversationMode = Null
    /\ conversationContext = << >>
    /\ conversationState = << >>
    /\ currentAssignment = NoText
    /\ lastUserInput = NoText
    /\ savedAssignments = << >>
    /\ ui = NoPage
    /\ pendingDisplay = << >>
    /\ timers = NoTimers
    /\ \E response \in Responses :
          lastTurn = [Turn("init", NoText) EXCEPT !.generated = << response >>]
    /\ contained = Profile
    /\ begins = Prefixes
    /\ ends = Suffixes
    /\ lengths = Lengths

\* this.validateSingleMode(response); lastTurn.displayed holds the response as
\* the call left it
ValidateSingleMode ==
    /\ lastTurn.op = "init"
    /\ lastTurn' = [lastTurn EXCEPT
                       !.op = "validateSingleMode",
                       !.validated = TRUE,
                       !.displayed = << validateSingleMode(lastTurn.generated[1]) >>]
    /\ UNCHANGED <<config, modesFromConfig, conversationMode, conversationContext,
                   conversationState, currentAssignment, lastUserInput,
                   savedAssignments, ui, pendingDisplay, timers, contained, begins, ends,
                   lengths>>

\* this.validateSingleMode(response) on a response it has validated before;
\* lastTurn.generated holds the response handed in, lastTurn.displayed the
\* response as the second call left it
ValidateAgain ==
    /\ lastTurn.op = "validateSingleMode"
    /\ lastTurn' = [lastTurn EXCEPT
                       !.op = "validateAgain",
                       !.generated = lastTurn.displayed,
                       !.displayed = << validateSingleMode(lastTurn.displayed[1]) >>]
    /\ UNCHANGED <<config, modesFromConfig, conversationMode, conversationContext,
                   conversationState, currentAssignment, lastUserInput,
                   savedAssignments, ui, pendingDisplay, timers, contained, begins, ends,
                   lengths>>

NextValidate == ValidateSingleMode \/ ValidateAgain

SpecValidate == InitValidate /\ [][NextValidate]_vars

----------------------------------------------------------------------------
(* The claims *)

\* the response generateFrankResponse returned in the last turn
turnResponse == lastTurn.generated[1]

\* the response the last turn delivered: the one on the page, or the one
\* whose display is scheduled
deliveredResponse ==
    IF lastTurn.displayed # << >> THEN lastTurn.displayed[1] ELSE turnResponse

onlyPauseActions(actions) ==
    \A i \in 1..Len(actions) :
        actions[i] \in { <<"Pause">>, <<"Come", "back", "later">> }

\* C1: every non-empty input that contains a loss-of-function marker is
\* classified overwhelmed with hasLossOfFunction = true, and the response of
\* that turn has mode Calming, no question, and no action other than Pause and
\* Come back later
C1_LossOfFunctionIsCalmed ==
    (/\ lastTurn.generated # << >>
     /\ lastTurn.input # NoText
     /\ includesSome(lastTurn.input, lossOfFunctionSignals))
    => /\ lastTurn.signal = "overwhelmed"
       /\ lastTurn.lossOfFunction
       /\ turnResponse.mode = Calming
       /\ turnResponse.question = NoText
       /\ onlyPauseActions(turnResponse.actions)

\* the last turn answers the question the turn before it left pending: that
\* turn recorded a question, and the input is short or declarative, not
\* exploratory, aligned with the question, reduces ambiguity, and is not a new
\* topic
answersPendingQuestion ==
    /\ lastTurn.generated # << >>
    /\ Len(conversationContext) >= 2
    /\ conversationContext[Len(conversationContext) - 1].hadQuestion
    /\ conversationContext[Len(conversationContext) - 1].lastQuestion # NoText
    /\ isShortOrDeclarative(lastTurn.input)
    /\ ~isExploratory(lastTurn.input)
    /\ alignsWithQuestion(lastTurn.input,
           conversationContext[Len(conversationContext) - 1].lastQuestion)
    /\ reducesAmbiguity(lastTurn.input)
    /\ ~introducesNewTopic(lastTurn.input, conversationContext)

\* C2: no two clarifying questions in a row about the same concern: when the
\* response before was Clarifying with a question and the input of this turn
\* answers that question, the response of this turn is not Clarifying and has
\* no question
C2_NoSecondClarifyingQuestion ==
    (answersPendingQuestion /\ lastTurn.priorMode = Clarifying)
    => /\ turnResponse.mode # Clarifying
       /\ turnResponse.question = NoText

\* C3: the answer path has priority over the dispatch on the signal: whenever
\* a turn answers the pending question, whatever its signal, the response mode
\* is OfferingDirection or Stepping
C3_AnswerPathFirst ==
    answersPendingQuestion => turnResponse.mode \in {OfferingDirection, Stepping}

\* every response the program holds: the one the last turn generated, the one
\* it displayed, the one on the page, the ones waiting for their display
heldResponses ==
    {lastTurn.generated[i] : i \in 1..Len(lastTurn.generated)}
    \cup {lastTurn.displayed[i] : i \in 1..Len(lastTurn.displayed)}
    \cup {ui.shown[i] : i \in 1..Len(ui.shown)}
    \cup {pendingDisplay[i].response : i \in 1..Len(pendingDisplay)}

\* C4: in every turn (first input, answer, action) no response is Clarifying
\* with actions and no response is Stepping with a question
C4_NoClarifyingActionsNoSteppingQuestion ==
    \A r \in heldResponses :
        /\ ~(r.mode = Clarifying /\ r.actions # << >>)
        /\ ~(r.mode = Stepping /\ r.question # NoText)

\* C4's case: a turn other than the first answered with a clarifying question,
\* and a turn produced a step with its two actions
C4_Witness ==
    /\ lastTurn.op = "handleAnswerWithCanonicalFlow"
    /\ lastTurn.generated # << >>
    /\ turnResponse.mode = Clarifying
    /\ turnResponse.question # NoText
    /\ \E i \in 1..Len(ui.shown) :
          ui.shown[i].mode = Clarifying /\ ui.shown[i].actions = << >>

\* C5: the mode of every response generate produces, and the active mode
\* after every turn, is one of the five modes, whichever configuration is loaded
C5_ModeIsOneOfFive ==
    lastTurn.generated # << >>
    => /\ turnResponse.mode \in FiveModes
       /\ conversationMode \in FiveModes

\* C6: every response that reaches the page, for a first input, an answer or
\* an action, went through validateSingleMode before it was displayed and
\* before the active mode was set from it
C6_ValidatedBeforeUse ==
    /\ lastTurn.displayed # << >> => lastTurn.validated
    /\ lastTurn.modeSets > 0 => lastTurn.validated

\* the field table: what a response of each of the five modes may carry
validForMode(r) ==
    CASE r.mode = Listening -> r.question = NoText /\ r.actions = << >>
      [] r.mode = Clarifying -> r.question # NoText /\ r.actions = << >>
      [] r.mode = OfferingDirection ->
            r.question = NoText /\ Len(r.actions) \in 2..4
      [] r.mode = Calming -> r.question = NoText /\ onlyPauseActions(r.actions)
      [] r.mode = Stepping -> r.question = NoText /\ Len(r.actions) \in 0..2
      [] OTHER -> TRUE

\* C7: after validateSingleMode a response is valid for its mode according to
\* the field table; an output that violates the table is repaired
C7_ValidateRepairs ==
    lastTurn.op = "validateSingleMode" => validForMode(lastTurn.displayed[1])

\* s with only the elements at the positions in keep
keepOnly(s, keep) ==
    LET kept[i \in 0..Len(s)] ==
            IF i = 0 THEN << >>
            ELSE IF i \in keep THEN Append(kept[i - 1], s[i]) ELSE kept[i - 1]
    IN kept[Len(s)]

\* v is r with nothing changed except a question or actions removed
onlyStripped(r, v) ==
    /\ v.message = r.message
    /\ v.question \in {r.question, NoText}
    /\ \E keep \in SUBSET (1..Len(r.actions)) : v.actions = keepOnly(r.actions, keep)

C9_ModeSetOncePerTurn ==
    (lastTurn.generated # << >> /\ lastTurn.alert = "none")
    => /\ lastTurn.modeSets = 1
       /\ conversationMode = deliveredResponse.mode

\* C10: every OfferingDirection response has a message, no question and
\* between 2 and 4 actions, the response to a request to shrink included
C10_OfferingDirectionShape ==
    (lastTurn.generated # << >> /\ turnResponse.mode = OfferingDirection)
    => /\ turnResponse.message.text # NoText
       /\ turnResponse.question = NoText
       /\ Len(turnResponse.actions) \in 2..4


\* C11: every Stepping response carries a step of the breakdown as its
\* message, no question and at most 2 actions, the Stepping responses of the
\* answer path included
C11_SteppingCarriesStep ==
    (lastTurn.generated # << >> /\ turnResponse.mode = Stepping)
    => /\ turnResponse.message.kind = "step"
       /\ turnResponse.question = NoText
       /\ Len(turnResponse.actions) <= 2

startAndSmaller == << <<"Start", "this", "step">>, <<"Make", "it", "smaller">> >>

\* the direction selected on the response before this turn, NoText if none
previousDirection ==
    IF Len(conversationContext) >= 2
    THEN conversationContext[Len(conversationContext) - 1].selectedDirection
    ELSE NoText

\* the three conditions under which a step is offered with its two actions
offersActions ==
    \/ includesSome(lastTurn.input, readinessSignals)
    \/ directionImpliesAction(previousDirection)
    \/ (Len(conversationContext) = 1 /\ isDirectAssignmentRequest(lastTurn.input))

\* C12: a Stepping response produced for a ready_for_action signal has the
\* actions Start this step and Make it smaller exactly when the text contains
\* a readiness phrase, or the direction selected on the previous response
\* implied action, or this is the first turn and the text is a direct request;
\* otherwise it has no actions
C12_ActionsGatedByReadiness ==
    (/\ lastTurn.generated # << >>
     /\ lastTurn.signal = "ready_for_action"
     /\ ~lastTurn.answerPath
     /\ turnResponse.mode = Stepping)
    => turnResponse.actions = (IF offersActions THEN startAndSmaller ELSE << >>)

----------------------------------------------------------------------------
(* classifyInput on its own: every text under every prior mode *)

\* the values this.conversationMode has when classifyInput is called
PriorModes == FiveModes \cup {Null}

\* a text and a prior mode are drawn; lastTurn.input and lastTurn.priorMode
\* hold them
InitClassify ==
    /\ config \in Configs
    /\ modesFromConfig \in BOOLEAN
    /\ modesFromConfig => config # "none"
    /\ conversationMode \in PriorModes
    /\ conversationContext = << >>
    /\ conversationState = << >>
    /\ currentAssignment = NoText
    /\ lastUserInput = NoText
    /\ savedAssignments = << >>
    /\ ui = NoPage
    /\ pendingDisplay = << >>
    /\ timers = NoTimers
    /\ \E userInput \in Typed : lastTurn = Turn("init", userInput)
    /\ contained = Profile
    /\ begins = Prefixes
    /\ ends = Suffixes
    /\ lengths = Lengths

\* this.classifyInput(userInput); lastTurn.signal, lastTurn.certaintyLevel and
\* lastTurn.lossOfFunction hold the signal it returned
ClassifyInput ==
    /\ lastTurn.op = "init"
    /\ lastTurn' = [lastTurn EXCEPT
                       !.op = "classifyInput",
                       !.signal = classifyInput(lastTurn.input).type,
                       !.certaintyLevel = classifyInput(lastTurn.input).certaintyLevel,
                       !.lossOfFunction = classifyInput(lastTurn.input).hasLossOfFunction]
    /\ UNCHANGED <<config, modesFromConfig, conversationMode, conversationContext,
                   conversationState, currentAssignment, lastUserInput,
                   savedAssignments, ui, pendingDisplay, timers, contained, begins, ends,
                   lengths>>

NextClassify == ClassifyInput

SpecClassify == InitClassify /\ [][NextClassify]_vars

\* the cascade of nine predicates in its fixed order: the signal type and
\* hasLossOfFunction of the first predicate that matches
cascade(text, priorMode) ==
    IF includesSome(text, lossOfFunctionSignals) THEN <<"overwhelmed", TRUE>>
    ELSE IF includesSome(text, intensityOnlySignals) THEN <<"intense_emotion", FALSE>>
    ELSE IF includesSome(text, overwhelmSignals) THEN <<"overwhelmed", FALSE>>
    ELSE IF includesSome(text, shrinkSignals) THEN <<"request_to_shrink", FALSE>>
    ELSE IF priorMode = Clarifying /\ text # NoText THEN <<"ready_for_action", FALSE>>
    ELSE IF priorMode # Clarifying /\ includesSome(text, explanatoryPatterns)
        THEN <<"explanatory", FALSE>>
    ELSE IF includesSome(text, emotionalKeywords) THEN <<"emotional", FALSE>>
    ELSE IF includesSome(text, assignmentKeywords) THEN <<"ready_for_action", FALSE>>
    ELSE IF wordCount(text) < 10 THEN <<"emotional", FALSE>>
    ELSE <<"ready_for_action", FALSE>>

\* C13: classifyInput returns the signal of the first matching predicate of
\* the cascade (loss of function, intensity only, generic overwhelm, shrink
\* request, reply in Clarifying, explanatory outside Clarifying, emotional
\* keyword, assignment keyword, word count), and never explanatory when the
\* prior mode is Clarifying
C13_FirstMatchWins ==
    lastTurn.op = "classifyInput"
    => /\ <<lastTurn.signal, lastTurn.lossOfFunction>>
              = cascade(lastTurn.input, lastTurn.priorMode)
       /\ lastTurn.priorMode = Clarifying => lastTurn.signal # "explanatory"

----------------------------------------------------------------------------
(* The composers on their own: every branch that renders a mirror or a
   question, applied to every text with the certainty level classifyInput
   gives it *)

\* case 'emotional': mirrorEmotion and askOneClarifyingQuestion
ComposeEmotional ==
    /\ lastTurn.op = "init"
    /\ lastTurn' = [lastTurn EXCEPT
           !.op = "emotional",
           !.generated =
               << clarify(<< >>,
                      mirrorEmotion(lastTurn.input,
                                    classifyInput(lastTurn.input).certaintyLevel),
                      askOneClarifyingQuestion(lastTurn.input,
                                    classifyInput(lastTurn.input).certaintyLevel)).response >>]
    /\ UNCHANGED <<config, modesFromConfig, conversationMode, conversationContext,
                   conversationState, currentAssignment, lastUserInput,
                   savedAssignments, ui, pendingDisplay, timers, contained, begins, ends,
                   lengths>>

\* case 'explanatory': reflectMeaning and narrowChoices
ComposeExplanatory ==
    /\ lastTurn.op = "init"
    /\ lastTurn' = [lastTurn EXCEPT
           !.op = "explanatory",
           !.generated =
               << clarify(<< >>,
                      reflectMeaning(lastTurn.input,
                                     classifyInput(lastTurn.input).certaintyLevel),
                      narrowChoices(lastTurn.input,
                                    classifyInput(lastTurn.input).certaintyLevel)).response >>]
    /\ UNCHANGED <<config, modesFromConfig, conversationMode, conversationContext,
                   conversationState, currentAssignment, lastUserInput,
                   savedAssignments, ui, pendingDisplay, timers, contained, begins, ends,
                   lengths>>

\* case 'intense_emotion' and 'overwhelmed' without loss of function:
\* handleIntensityAsInformation and askFunctionCheckQuestion
ComposeIntensity ==
    /\ lastTurn.op = "init"
    /\ lastTurn' = [lastTurn EXCEPT
           !.op = "intense_emotion",
           !.generated =
               << clarify(<< >>, handleIntensityAsInformation(lastTurn.input),
                          askFunctionCheckQuestion).response >>]
    /\ UNCHANGED <<config, modesFromConfig, conversationMode, conversationContext,
                   conversationState, currentAssignment, lastUserInput,
                   savedAssignments, ui, pendingDisplay, timers, contained, begins, ends,
                   lengths>>

\* the answer path: handleQuestionAnswer
ComposeAnswer ==
    /\ lastTurn.op = "init"
    /\ lastTurn' = [lastTurn EXCEPT
           !.op = "handleQuestionAnswer",
           !.answerPath = TRUE,
           !.generated =
               << handleQuestionAnswer(lastTurn.input, classifyInput(lastTurn.input),
                      classifyInput(lastTurn.input).certaintyLevel,
                      buildContext(lastTurn.input, NoText, << >>)) >>]
    /\ UNCHANGED <<config, modesFromConfig, conversationMode, conversationContext,
                   conversationState, currentAssignment, lastUserInput,
                   savedAssignments, ui, pendingDisplay, timers, contained, begins, ends,
                   lengths>>

NextCompose ==
    \/ ComposeEmotional
    \/ ComposeExplanatory
    \/ ComposeIntensity
    \/ ComposeAnswer

SpecCompose == InitClassify /\ [][NextCompose]_vars

\* the phrases that come in two forms, one per certainty level: the hedged
\* form of each
hedgedForms ==
    { <<"It", "sounds", "like", "this", "might", "feel", "really", "hard.">>,
      <<"If", "something", "feels", "like", "it", "might", "not", "be", "relevant,", "that", "can", "make", "it", "harder", "to", "care.">>,
      <<"When", "something", "doesn't", "feel", "meaningful,", "it", "can", "be", "hard", "to", "engage", "with", "it.">>,
      <<"This", "might", "feel", "like", "a", "lot", "right", "now.">>,
      <<"What", "about", "it", "might", "feel", "the", "worst", "right", "now?">>,
      <<"Could", "it", "be", "that", "it", "doesn't", "connect", "to", "your", "life,", "or", "maybe", "you", "don't", "see", "why", "you're", "being", "asked", "to", "do", "it?">>,
      <<"What", "might", "be", "missing", "that", "would", "make", "it", "feel", "more", "meaningful?">>,
      <<"What", "part", "might", "feel", "the", "hardest?">>,
      <<"What", "might", "be", "bothering", "you", "about", "this?">>,
      <<"When", "something", "doesn't", "seem", "to", "connect", "to", "your", "life,", "it", "can", "be", "hard", "to", "see", "why", "it", "matters.">>,
      <<"What", "might", "need", "to", "change", "for", "it", "to", "feel", "more", "engaging?">>,
      <<"If", "it", "feels", "like", "it", "might", "not", "be", "relevant,", "that", "can", "make", "it", "harder", "to", "care.">> }

\* the direct form of each
directForms ==
    { <<"That", "sounds", "really", "hard.">>,
      <<"If", "something", "feels", "pointless,", "it's", "way", "harder", "to", "care.">>,
      <<"When", "something", "doesn't", "feel", "meaningful,", "it's", "hard", "to", "engage", "with", "it.">>,
      <<"This", "feels", "like", "a", "lot", "right", "now.">>,
      <<"What", "about", "it", "feels", "the", "worst", "right", "now?">>,
      <<"Is", "the", "problem", "more", "that", "it", "doesn't", "connect", "to", "your", "life,", "or", "you", "don't", "see", "why", "you're", "being", "asked", "to", "do", "it?">>,
      <<"What's", "missing", "that", "would", "make", "it", "feel", "meaningful?">>,
      <<"What", "part", "feels", "the", "hardest?">>,
      <<"What's", "bothering", "you", "about", "this?">>,
      <<"When", "something", "doesn't", "connect", "to", "your", "life,", "it's", "hard", "to", "see", "why", "it", "matters.">>,
      <<"What", "would", "need", "to", "change", "for", "it", "to", "feel", "more", "engaging?">>,
      <<"If", "it", "feels", "irrelevant,", "that", "makes", "it", "hard", "to", "care", "or", "try.">> }

\* the text opens with the phrase
opensWith(text, phrase) ==
    Len(phrase) <= Len(text) /\ SubSeq(text, 1, Len(phrase)) = phrase

\* the response renders one of the forms as its mirror or as its question
rendersSome(r, forms) ==
    \E f \in forms : opensWith(r.message.text, f) \/ r.question = f

\* C14: on every branch that renders a mirror or a question (emotional,
\* explanatory, intensity, the answer path) a text of low certainty never gets
\* the direct form of a phrase, and a text of medium or high certainty never
\* gets the hedged form
C14_CertaintyMatched ==
    lastTurn.op \in {"emotional", "explanatory", "intense_emotion",
                     "handleQuestionAnswer"}
    => IF detectCertaintyLevel(lastTurn.input) = "low"
       THEN ~rendersSome(turnResponse, directForms)
       ELSE ~rendersSome(turnResponse, hedgedForms)

\* the turn this.conversationContext records for the last call of
\* generateFrankResponse: its input, signal and certainty level
turnEntry == conversationContext[Len(conversationContext)]

C16_KindOfPointlessIsHedged ==
    (/\ lastTurn.generated # << >>
     /\ lastTurn.input = <<"this", "feels", "kind", "of", "pointless">>)
    => /\ turnEntry.certaintyLevel = "low"
       /\ \E f \in hedgedForms : opensWith(turnResponse.message.text, f)
       /\ \A f \in directForms : ~opensWith(turnResponse.message.text, f)

\* C17: on the first turn of a session the direct request "help me write an
\* essay about World War I", submitted through processAssignment, is classified
\* ready_for_action and answered with a Stepping response whose actions
\* include Start this step
C17_DirectRequestGetsStep ==
    (/\ lastTurn.op = "processAssignment"
     /\ lastTurn.input = <<"help", "me", "write", "an", "essay", "about", "World", "War", "I">>
     /\ Len(conversationContext) = Len(lastTurn.generated))
    => /\ lastTurn.generated # << >>
       /\ lastTurn.signal = "ready_for_action"
       /\ turnResponse.mode = Stepping
       /\ \E i \in 1..Len(turnResponse.actions) :
             turnResponse.actions[i] = <<"Start", "this", "step">>

C16_KindOfPointlessIsDirect ==
    (/\ lastTurn.generated # << >>
     /\ lastTurn.input = <<"this", "feels", "kind", "of", "pointless">>)
    => /\ turnEntry.certaintyLevel = (IF config = "none" THEN "medium" ELSE "high")
       /\ \A f \in hedgedForms : ~opensWith(turnResponse.message.text, f)

\* C16's case: the input was mirrored with a direct form
C16_Witness ==
    /\ lastTurn.generated # << >>
    /\ lastTurn.input = <<"this", "feels", "kind", "of", "pointless">>
    /\ turnEntry.certaintyLevel = "high"
    /\ turnResponse.message.text
           = <<"When", "something", "doesn't", "feel", "meaningful,", "it's", "hard", "to", "engage", "with", "it.">>

\* the content-policy check matches the text: a configuration with the filter
\* is loaded and the text contains one of its keywords
policyMatches(text) ==
    config # "none" /\ \E k \in contentPolicyKeywords : includes(text, k)

\* a step of processAssignment or handleAnswerWithCanonicalFlow on a
\* non-empty input
submitsInput ==
    /\ lastTurn'.op \in {"processAssignment", "handleAnswerWithCanonicalFlow"}
    /\ lastTurn'.input # NoText
    /\ lastTurn' # lastTurn

\* C18: a first input or an answer that the content-policy check matches is
\* answered with the canned redirect only: it is not classified, no response
\* is generated, no turn is appended to the conversation context, no answer is
\* recorded, and the active mode, the assignment and the last input are unchanged
C18_PolicyMatchShortCircuits ==
    [][(submitsInput /\ policyMatches(lastTurn'.input))
       => /\ lastTurn'.blocked
          /\ ui'.filtered /\ ui'.shown = << >>
          /\ lastTurn'.signal = "none"
          /\ lastTurn'.generated = << >>
          /\ lastTurn'.plan = << >>
          /\ UNCHANGED <<conversationContext, conversationState, conversationMode,
                         currentAssignment, lastUserInput, pendingDisplay>>]_vars

\* C18's case: an answer to a displayed question was matched by the check and
\* blocked, with the conversation still at its first turn
C18_Witness ==
    /\ lastTurn.op = "handleAnswerWithCanonicalFlow"
    /\ policyMatches(lastTurn.input)
    /\ lastTurn.blocked
    /\ ui.filtered
    /\ Len(conversationContext) = 1
    /\ conversationMode = Clarifying

\* the text contains one of the overwhelm markers of detectsOverwhelmSignal
hasOverwhelmMarker(text) ==
    text # NoText /\ \E k \in hardcodedOverwhelmSignals : includes(text, k)

\* the breakdown the last handler generated, and the input it was generated from
planned == lastTurn.plan[1]

\* C19: a resilience_help breakdown generated from an input with no overwhelm
\* marker does not start with the step "Take a Breath", whatever the
\* earlier turns were
C19_NoMarkerNoBreath ==
    (/\ lastTurn.plan # << >>
     /\ planned.breakdown.type = "resilience_help"
     /\ ~hasOverwhelmMarker(planned.input))
    => planned.breakdown.steps[1].title # <<"Take", "a", "Breath">>

\* C19's case: a resilience_help breakdown was generated from an input with no
\* overwhelm marker in the turn after an input with one
C19_Witness ==
    /\ lastTurn.plan # << >>
    /\ planned.breakdown.type = "resilience_help"
    /\ ~hasOverwhelmMarker(planned.input)
    /\ Len(conversationContext) = 2
    /\ hasOverwhelmMarker(conversationContext[1].input)
    /\ planned.breakdown.steps[1].title = <<"Name", "What's", "Happening">>

\* C20: the steps of a generated breakdown are those that the same input and
\* type give at the start of a session, whatever the previous input, the turn
\* number and the actions selected earlier were
C20_StepsFromInputAndType ==
    lastTurn.plan # << >>
    => planned.breakdown.steps
           = generateBreakdown(planned.input, planned.breakdown.type,
                               NoText, << >>).steps

\* the certainty level the two marker lists give a text, the high-certainty
\* markers first
levelByMarkers(text) ==
    IF \E k \in highCertaintyMarkers : includes(text, k) THEN "high"
    ELSE IF \E k \in lowCertaintyMarkers : includes(text, k) THEN "low"
    ELSE "medium"

C27_ValidateIdempotent ==
    /\ (/\ lastTurn.op = "validateSingleMode"
        /\ turnResponse.mode \in FiveModes
        /\ validForMode(turnResponse))
       => lastTurn.displayed[1] = turnResponse
    /\ lastTurn.op = "validateAgain" => lastTurn.displayed[1] = turnResponse

\* C27's case: a response that the first call had repaired (a Listening
\* response with a question and actions) was validated again
C27_Witness ==
    /\ lastTurn.op = "validateAgain"
    /\ turnResponse.mode = Clarifying
    /\ turnResponse.question # NoText
    /\ turnResponse.actions = << >>
    /\ lastTurn.displayed[1] = turnResponse

\* C24: when generateFrankResponse returns a response whose mode is missing or
\* is not one of the five modes, the turn is completed with a Listening
\* response that has a message, no question and no actions, and no error is
\* shown
C24_MalformedFallsBack ==
    (lastTurn.generated # << >> /\ turnResponse.mode \notin FiveModes)
    => /\ lastTurn.alert = "none"
       /\ deliveredResponse.mode = Listening
       /\ deliveredResponse.message.text # NoText
       /\ deliveredResponse.question = NoText
       /\ deliveredResponse.actions = << >>

----------------------------------------------------------------------------
(* generateFrankResponse on its own: every text under every prior mode and
   every configuration, at the start of a conversation *)

\* this.generateFrankResponse(userInput, this.buildContext(userInput))
GenerateFrankResponse ==
    /\ lastTurn.op = "init"
    /\ LET gen == generateWithContext(lastTurn.input, lastTurn.input, NoText,
                                      NoText, << >>)
       IN  /\ lastTurn' = GeneratedTurn("generateFrankResponse", lastTurn.input, gen)
           /\ conversationContext' = gen.context
           /\ lastUserInput' = lastTurn.input
    /\ UNCHANGED <<config, modesFromConfig, conversationMode, conversationState,
                   currentAssignment, savedAssignments, ui, pendingDisplay, timers,
                   contained, begins, ends, lengths>>

NextGenerate == GenerateFrankResponse

SpecGenerate == InitClassify /\ [][NextGenerate]_vars

C29_AnswerDetectedFromPreviousTurn ==
    answersPendingQuestion => lastTurn.answerPath

\* C30: a turn whose input introduces a new topic (direct-help prefix,
\* "actually"/"wait", trailing "?", more than 20 words, leading question word)
\* is never composed by handleQuestionAnswer, whatever the prior mode and the
\* signal
C30_NewTopicNeverAnswer ==
    (/\ lastTurn.generated # << >>
     /\ introducesNewTopic(lastTurn.input, conversationContext))
    => ~lastTurn.answerPath

----------------------------------------------------------------------------
(* Pause, resume and the start of a new task *)

\* the handlers that submit a task: the submit button, and the two buttons of
\* the welcome-back message
submissionOps == {"processAssignment", "loadAssignmentWithProgress", "startFresh"}

\* the conversation was closed or paused after at least one turn: no task is
\* current and the modal is closed
taskEnded ==
    /\ currentAssignment = NoText
    /\ ~ui.modalOpen
    /\ Len(conversationContext) > 0

\* C23: the first input of a new task (an input submitted after the
\* conversation was closed or paused, or a saved task started fresh) is
\* classified with no prior mode and is the only entry of the conversation
\* context, that is, the context was emptied and the mode reset
C23_NewTaskStartsClean ==
    [][(/\ lastTurn'.generated # << >>
        /\ \/ taskEnded /\ lastTurn'.op = "processAssignment"
           \/ lastTurn'.op = "startFresh")
       => /\ lastTurn'.priorMode = Null
          /\ Len(conversationContext') = 1]_vars

\* the labels of the buttons whose action is the pause
pauseLabels == { <<"Pause">>, <<"Come", "back", "later">> }

\* the last handler was a pause that took effect: the pause button, the
\* deferred pause after Not right now, or the Pause action of a response
pauseJustTaken ==
    /\ currentAssignment = NoText
    /\ ~ui.modalOpen
    /\ \/ lastTurn.op \in {"pauseAndSave", "deferredPause"}
       \/ lastTurn.op = "handleCanonicalAction" /\ lastTurn.input \in pauseLabels

\* C22: the step that follows a pause, unless it submits a task (a resume or
\* a new submission), neither produces nor displays a response, and the
\* conversation stays closed
C22_NothingShownAfterPause ==
    [][(pauseJustTaken /\ lastTurn'.op \notin submissionOps)
       => /\ lastTurn'.generated = << >>
          /\ lastTurn'.displayed = << >>
          /\ ~ui'.modalOpen]_vars

\* the answers recorded in this.conversationState
recordedAnswers ==
    IF conversationState = << >> THEN << >> ELSE conversationState[1].answers

\* the record of the task text in the list saved
savedRecord(saved, text) ==
    saved[CHOOSE i \in 1..Len(saved) : saved[i].text = text]

\* the saved record r holds the original input, the recorded answers and the
\* current step index; the only list the record can hold is the empty one and
\* the only index 0
persistsProgress(r) ==
    /\ r.text = currentAssignment
    /\ r.adviceAnswers = "[]" /\ recordedAnswers = << >>
    /\ r.currentAdviceStep = "0" /\ completedSteps = 0

\* a step in which pauseAndSave stores the current task
pauseStep ==
    /\ currentAssignment # NoText
    /\ currentAssignment' = NoText
    /\ savedAssignments' # savedAssignments

\* after the resume of the saved record r the state holds r's input, its
\* answers and its step index, and a step that is presented is the step at
\* that index of the breakdown generated anew
restoresProgress(r) ==
    /\ r.adviceAnswers = "[]"
    /\ conversationState' # << >>
    /\ conversationState'[1].originalInput = r.text
    /\ conversationState'[1].answers = << >>
    /\ currentAssignment' = r.text
    /\ (lastTurn'.displayed # << >> /\ lastTurn'.displayed[1].message.kind = "step")
          => lastTurn'.displayed[1].message =
                 StepMessage(breakDownAssignment(r.text, lastUserInput',
                                                 conversationContext').steps[1])

\* C21: a pause stores the original input, the recorded answers and the
\* current step index of the task, and a resume restores exactly these and
\* presents the step at the restored index of the regenerated breakdown
C21_PauseResumeRoundTrip ==
    [][/\ pauseStep
          => persistsProgress(savedRecord(savedAssignments', currentAssignment))
       /\ lastTurn'.op = "loadAssignmentWithProgress"
          => restoresProgress(savedRecord(savedAssignments, lastTurn'.input))]_vars

----------------------------------------------------------------------------
(* The shape test and the content check on their own *)

\* the texts handed to the two predicates
ExaminedInputs == Typed \cup ExaminedTexts

\* a text is drawn; lastTurn.input holds it
InitExamine ==
    /\ config \in Configs
    /\ modesFromConfig \in BOOLEAN
    /\ modesFromConfig => config # "none"
    /\ conversationMode = Null
    /\ conversationContext = << >>
    /\ conversationState = << >>
    /\ currentAssignment = NoText
    /\ lastUserInput = NoText
    /\ savedAssignments = << >>
    /\ ui = NoPage
    /\ pendingDisplay = << >>
    /\ timers = NoTimers
    /\ \E userInput \in ExaminedInputs : lastTurn = Turn("init", userInput)
    /\ contained = Profile
    /\ begins = Prefixes
    /\ ends = Suffixes
    /\ lengths = Lengths

\* this.isShortOrDeclarative(userInput); lastTurn.accepted holds what it returned
IsShortOrDeclarative ==
    /\ lastTurn.op = "init"
    /\ lastTurn' = [lastTurn EXCEPT
                       !.op = "isShortOrDeclarative",
                       !.accepted = isShortOrDeclarative(lastTurn.input)]
    /\ UNCHANGED <<config, modesFromConfig, conversationMode, conversationContext,
                   conversationState, currentAssignment, lastUserInput,
                   savedAssignments, ui, pendingDisplay, timers, contained, begins, ends,
                   lengths>>

\* this.checkInappropriateContent(input); lastTurn.blocked holds what it
\* returned; a match shows the canned redirect
CheckInappropriateContent ==
    /\ lastTurn.op = "init"
    /\ lastTurn' = [lastTurn EXCEPT
                       !.op = "checkInappropriateContent",
                       !.blocked = checkInappropriateContent(lastTurn.input)]
    /\ ui' = IF checkInappropriateContent(lastTurn.input)
             THEN showInappropriateContentResponse ELSE ui
    /\ UNCHANGED <<config, modesFromConfig, conversationMode, conversationContext,
                   conversationState, currentAssignment, lastUserInput,
                   savedAssignments, pendingDisplay, timers, contained, begins, ends,
                   lengths>>

NextExamine == IsShortOrDeclarative \/ CheckInappropriateContent

SpecExamine == InitExamine /\ [][NextExamine]_vars

\* C31: the shape test of the answer detector accepts no input that matches
\* an exploratory pattern (a trailing "?", a leading wh-word, "I think",
\* "I wonder", "I guess"), however short the input is
C31_ExploratoryNeverAccepted ==
    (lastTurn.op = "isShortOrDeclarative" /\ isExploratory(lastTurn.input))
        => ~lastTurn.accepted

\* the assignment keywords of the classifier that the input contains
taskVocabularyIn(input) == {a \in assignmentKeywords : includes(input, a)}

\* the input contains task vocabulary, and every content-policy keyword found
\* in it is found inside an assignment keyword it contains
onlyTaskVocabularyMatches(input) ==
    /\ taskVocabularyIn(input) # {}
    /\ \A k \in contentPolicyKeywords :
          includes(input, k)
              => \E a \in taskVocabularyIn(input) : includesChars(Str[a], Str[k])

\* C38: the content check does not block an input whose only matches of
\* content-policy keywords lie inside the task vocabulary it contains (no
\* content-policy keyword is a substring of an assignment keyword)
C38_TaskVocabularyNotBlocked ==
    (lastTurn.op = "checkInappropriateContent"
        /\ onlyTaskVocabularyMatches(lastTurn.input))
        => ~lastTurn.blocked

\* C32: selecting an action that a displayed response offers never ends in
\* the dispatcher's unknown-action case: every offered label maps to an
\* actionId that has a handler
C32_OfferedActionsAreHandled ==
    lastTurn.op = "handleCanonicalAction" => lastTurn.alert # "unknown action"

----------------------------------------------------------------------------
(* The order of the steps *)

\* the number of steps completed so far: the answers that handleStepCompletion
\* recorded for a step
stepsCompleted ==
    Cardinality({i \in 1..Len(recordedAnswers) : recordedAnswers[i].step # NoText})

\* C33: the step continueToNextStep presents after k completed steps is
\* steps[k] of the breakdown of the current task (position k + 1 here), where
\* k counts the completed steps and not the answers to clarifying questions
C33_StepsInTemplateOrder ==
    [][(lastTurn'.op = "continueToNextStep" /\ lastTurn'.displayed # << >>)
       => /\ stepsCompleted <
                Len(breakDownAssignment(currentAssignment, lastUserInput,
                                        conversationContext).steps)
          /\ lastTurn'.displayed[1].message =
                StepMessage(breakDownAssignment(currentAssignment, lastUserInput,
                                                conversationContext).steps[stepsCompleted + 1])]_vars

\* a step of the current task's breakdown other than its last one is on the page
stepBeforeLastPresented ==
    /\ ui.modalOpen /\ ui.shown # << >>
    /\ ui.shown[1].message.kind = "step"
    /\ currentAssignment # NoText
    /\ LET steps == breakDownAssignment(currentAssignment, lastUserInput,
                                        conversationContext).steps
       IN  \E i \in 1..(Len(steps) - 1) : steps[i].title = ui.shown[1].message.text

\* C34: whenever a step that is not the last one is presented, the page has
\* the control that completes it (the step's button, which leads to "Want to
\* keep going?" and to the next step), also for a step that needs no typed
\* input; without it the later steps are never presented
C34_PresentedStepCanBeCompleted ==
    stepBeforeLastPresented => ui.shown[1].message.needsInput

\* the presented step was completed through its button and the prompt that
\* completion scheduled has not appeared yet
completionPending ==
    /\ ui.modalOpen /\ ui.shown # << >>
    /\ ui.shown[1].message.kind = "step"
    /\ ~ui.stepCurrent
    /\ timers[keepGoingTimer] > 0
    /\ recordedAnswers # << >>
    /\ recordedAnswers[Len(recordedAnswers)].step = ui.shown[1].message.text

\* C35: activating the completion control of a step again, during the delay
\* before "Want to keep going?" appears, records no second answer for the
\* step and schedules no second prompt
C35_OneCompletionPerStep ==
    [][(completionPending /\ lastTurn'.op = "handleStepCompletion")
       => /\ recordedAnswers' = recordedAnswers
          /\ timers' = timers]_vars

\* an Offering Direction response whose only action is "Make this smaller"
onlyMakeSmaller(response) ==
    /\ response.mode = OfferingDirection
    /\ response.actions = << <<"Make", "this", "smaller">> >>

\* C36: selecting "Make this smaller" / "Make it smaller" makes progress: the
\* response it leads to is not again the displayed Offering Direction response
\* whose only action is "Make this smaller"
C36_MakeSmallerMakesProgress ==
    [][(/\ lastTurn'.op = "handleCanonicalAction"
        /\ lastTurn'.input = makeItSmallerInput
        /\ lastTurn'.displayed # << >>
        /\ ui.shown # << >>
        /\ onlyMakeSmaller(ui.shown[1]))
       => lastTurn'.displayed[1] # ui.shown[1]]_vars

\* the handlers that append to conversationState.answers
answerOps == {"processAssignment", "handleAnswerWithCanonicalFlow", "handleStepCompletion"}

\* C37: the conversation state that a resume restores has the answers list,
\* and an answer or a completed step after the resume is recorded without a
\* TypeError
C37_ResumedStateTakesAnswers ==
    /\ conversationState # << >> => conversationState[1].hasAnswers
    /\ lastTurn.op \in answerOps => lastTurn.alert # "TypeError"
=============================================================================
